---------------------------- MODULE Spec2Model ----------------------------
(***************************************************************************)
(* ADocS: retrieval-augmented documentation-structure generation and the   *)
(* custom-section injection engine.                                        *)
(*                                                                         *)
(* The specifications share the variables below:                           *)
(*   SpecRetrieve  - DocStructureGenerator._find_similar_repos             *)
(*   SpecGenerate  - DocStructureGenerator.generate (retrieval, model      *)
(*                   fallback loop, payload cleaning and parsing) and its  *)
(*                   caller AnalysisService._generate_documentation_       *)
(*                   structure                                             *)
(*   SpecInject    - EnhancedDocumentationService.get_documentation        *)
(*   SpecSection   - EnhancedDocumentationService.get_documentation_section*)
(*                   next to get_documentation                             *)
(*   SpecConfig    - ConfigService._load_config and reload_config against  *)
(*                   a configuration file that changes                     *)
(*   SpecLookup    - ConfigService.get_repository_config                   *)
(*   SpecBuild     - KnowledgeBaseBuilder.process_repository_files under   *)
(*                   preprocess.main and build_knowledge_base_if_needed    *)
(*   SpecCorpus    - create_corpus_text and _create_corpus_text            *)
(*   SpecSanitize  - the _sanitize_filename of each service                *)
(*   SpecPrompt    - DocStructureGenerator._construct_prompt               *)
(*   SpecBatch     - ComprehensiveADocSService._generate_and_save_         *)
(*                   enhanced_pages and the cancellation of its task       *)
(* Each specification leaves the variables of the others at their idle     *)
(* values.                                                                 *)
(***************************************************************************)
EXTENDS Integers, Sequences, FiniteSets, TLC

VARIABLES
    \* --- similarity retriever (src/src/generator.py) ---
    knowledge_base,       \* self.knowledge_base: sequence of entries
    new_repo_embedding,   \* the query embedding
    k,                    \* requested number of similar repositories
    similar_repos,        \* value returned by _find_similar_repos
    rpc,                  \* "call" before the call, "returned" after it
    \* --- generation invoker (src/src/generator.py) ---
    gpc,                  \* position inside generate
    api_key,              \* TRUE when an Anthropic key is available
    attempts,             \* history: one record per messages.create call
    response,             \* local `response` of generate
    last_error,           \* local `last_error` of generate
    result,               \* what generate returned or raised
    doc_structure,        \* structure accepted by _generate_documentation_structure
    \* --- section injector (src/services/enhanced_documentation_service.py) ---
    stored_structure,     \* documentation structure held in storage
    repositories,         \* configuration: the repository entry, or absent
    global_config,        \* configuration: global_config mapping
    custom_store,         \* custom docs bucket: gcs_path -> fetch behaviour
    ipc,                  \* "call" before get_documentation, "returned" after
    enhanced,             \* value returned by get_documentation
    base_result,          \* the structure object get_documentation loaded
    section_request,      \* argument of get_documentation_section
    section_result,       \* value returned by get_documentation_section
    \* --- configuration service (src/services/config_service.py) ---
    config_file,          \* the configuration file on disk
    config_cache,         \* self._config_cache
    last_modified,        \* self._last_modified
    config_call,          \* record of the latest ConfigService call
    repo_url,             \* argument of get_repository_config
    found_config,         \* value returned by get_repository_config
    lpc,                  \* "call" before get_repository_config, "returned" after
    \* --- knowledge-base builder (src/src/preprocess.py, src/main.py) ---
    analysis_files,       \* the *_analysis.json files, in glob order
    deepwiki,             \* outcome of load_deepwiki_docs
    driver,               \* preprocess.main or build_knowledge_base_if_needed
    built,                \* local `knowledge_base` of process_repository_files
    file_index,           \* number of files the loop has gone through
    skipped_count,        \* local `skipped_count`
    kb_file,              \* knowledge_base.pkl: absent, or the pickled list
    bpc,                  \* position inside the build
    \* --- corpus text, sanitizers, prompt ---
    metadata,             \* argument of create_corpus_text
    corpus_text,          \* value returned by create_corpus_text
    cpc,                  \* "call" before create_corpus_text, "returned" after
    query_corpus_text,    \* value returned by _create_corpus_text, if called
    filename,             \* argument of _sanitize_filename
    sanitized,            \* value returned by each _sanitize_filename
    spc,                  \* "call" before _sanitize_filename, "returned" after
    new_repo_metadata,    \* argument of _construct_prompt
    retrieved,            \* argument similar_repos of _construct_prompt
    prompt,               \* value returned by _construct_prompt
    ppc,                  \* "call" before _construct_prompt, "returned" after
    \* --- batch generation of section content ---
    batch_sections,       \* root_item['children'] of the structure
    batch_index,          \* number of sections the loop is done with
    batch_pc,             \* where the coroutine is
    repo_dir,             \* the files of the output directory, by name
    saved_files,          \* the list the coroutine returns
    section_calls,        \* the generation calls made, as logged
    cancel_requested,     \* Task.cancel() was called on the batch
    batch_return,         \* how _generate_and_save_enhanced_pages ended
    \* --- logging ---
    log                   \* records written through the module loggers

vars == << knowledge_base, new_repo_embedding, k, similar_repos, rpc,
           gpc, api_key, attempts, response, last_error, result,
           doc_structure,
           stored_structure, repositories, global_config, custom_store, ipc,
           enhanced, base_result, section_request, section_result,
           config_file, config_cache, last_modified, config_call,
           repo_url, found_config, lpc,
           analysis_files, deepwiki, driver, built, file_index, skipped_count,
           kb_file, bpc,
           metadata, corpus_text, cpc, query_corpus_text, filename, sanitized, spc,
           new_repo_metadata, retrieved, prompt, ppc,
           batch_sections, batch_index, batch_pc, repo_dir, saved_files,
           section_calls, cancel_requested, batch_return,
           log >>

retrieveVars == << knowledge_base, new_repo_embedding, k, similar_repos, rpc >>
generateVars == << gpc, api_key, attempts, response, last_error, result,
                   doc_structure >>
injectVars   == << stored_structure, repositories, global_config, custom_store,
                   ipc, enhanced, base_result, section_request,
                   section_result >>
configVars   == << config_file, config_cache, last_modified, config_call >>
lookupVars   == << repo_url, found_config, lpc >>
buildVars    == << analysis_files, deepwiki, driver, built, file_index,
                   skipped_count, kb_file, bpc >>
corpusVars   == << metadata, corpus_text, cpc, query_corpus_text >>
sanitizeVars == << filename, sanitized, spc >>
promptVars   == << new_repo_metadata, retrieved, prompt, ppc >>
batchVars    == << batch_sections, batch_index, batch_pc, repo_dir,
                   saved_files, section_calls, cancel_requested, batch_return >>
serviceVars  == << configVars, lookupVars, buildVars, corpusVars, sanitizeVars,
                   promptVars, batchVars >>
coreVars     == << retrieveVars, generateVars, injectVars >>

(***************************************************************************)
(* Generic sequence helpers (Python list semantics).                       *)
(***************************************************************************)

\* Python's s[::-1]
Reverse(s) == [i \in 1..Len(s) |-> s[Len(s) + 1 - i]]

\* Python's s[-n:] for n >= 0: the last n elements, except that -0 is 0, so
\* s[-0:] is the whole of s; n larger than len(s) also yields the whole of s.
LastSlice(s, n) ==
    IF n = 0 \/ n >= Len(s) THEN s ELSE SubSeq(s, Len(s) - n + 1, Len(s))

\* All permutations of 1..n, as sequences
Permutations1(n) ==
    {p \in [1..n -> 1..n] : \A i, j \in 1..n : p[i] = p[j] => i = j}

Min(a, b) == IF a <= b THEN a ELSE b


\* An optional value: << >> is Python's None, << v >> holds v
None == << >>
Some(v) == << v >>

(***************************************************************************)
(* Similarity retriever.                                                   *)
(***************************************************************************)

\* Bounds of the retrieval model
MaxKB == 3
MaxK == 4

\* Embedding vectors of one fixed dimension (2).  All have an integer
\* Euclidean norm, so that every cosine is an exact number of hundredths.
Embeddings == { <<1, 0>>, <<0, 1>>, <<3, 4>>, <<-1, 0>>, <<0, 0>> }

Dot(a, b) == a[1] * b[1] + a[2] * b[2]

\* Euclidean norm; sklearn's normalize() divides a zero vector by 1
Norm(a) ==
    LET n == CHOOSE n \in 0..5 : n * n = Dot(a, a)
    IN  IF n = 0 THEN 1 ELSE n

\* cosine_similarity(a, b), in hundredths (exact for the vectors above)
CosineSimilarity(a, b) == (100 * Dot(a, b)) \div (Norm(a) * Norm(b))

\* similarities = cosine_similarity([new_repo_embedding], kb_embeddings)[0]
Similarities(kb, q) ==
    [i \in 1..Len(kb) |-> CosineSimilarity(q, kb[i].embedding)]

\* np.argsort(similarities): an index order that sorts the scores ascending.
\* The default kind is quicksort, which is not stable: among equal scores
\* the order is whatever the build produces, so every sorting order is
\* a possible outcome.
ArgSorts(sims) ==
    {p \in Permutations1(Len(sims)) :
        \A i, j \in 1..Len(sims) : i < j => sims[p[i]] <= sims[p[j]]}

\* top_indices = np.argsort(similarities)[-k:][::-1]
TopIndices(order, kk) == Reverse(LastSlice(order, kk))

\* entry = self.knowledge_base[idx].copy(); entry['similarity_score'] = ...
Annotated(entry, score) ==
    [repo_url |-> entry.repo_url, embedding |-> entry.embedding,
     similarity_score |-> score]

\* The body of _find_similar_repos for one outcome `order` of argsort
FindSimilarReposResult(kb, q, kk, order) ==
    LET sims == Similarities(kb, q)
        top  == TopIndices(order, kk)
    IN  [i \in 1..Len(top) |-> Annotated(kb[top[i]], sims[top[i]])]

\* self.knowledge_base after the loop of lines 147-150: each selected entry
\* is copied with .copy() and the score is written to the copy, so the
\* stored entries are left as they were
AnnotateStoredEntries(kb, top, sims) ==
    [i \in 1..Len(kb) |->
        IF \E j \in 1..Len(top) : top[j] = i THEN Annotated(kb[i], sims[i])
        ELSE kb[i]]
KnowledgeBaseAfter(kb, top, sims) ==
    [i \in 1..Len(kb) |->
        [repo_url |-> kb[i].repo_url, embedding |-> kb[i].embedding]]

\* The knowledge bases the builder can persist: non-empty, one entry per
\* repository, in insertion order
KnowledgeBases ==
    UNION { { [i \in 1..n |-> [repo_url |-> i, embedding |-> e[i]]] :
                e \in [1..n -> Embeddings] } : n \in 1..MaxKB }

RetrieveIdle ==
    /\ knowledge_base = << >>
    /\ new_repo_embedding = <<0, 0>>
    /\ k = 0
    /\ similar_repos = << >>
    /\ rpc = "idle"

RetrieveInit ==
    /\ knowledge_base \in KnowledgeBases
    /\ new_repo_embedding \in Embeddings
    /\ k \in 0..MaxK
    /\ similar_repos = << >>
    /\ rpc = "call"

\* _find_similar_repos(new_repo_embedding, k)
FindSimilarRepos ==
    /\ rpc = "call"
    /\ \E order \in ArgSorts(Similarities(knowledge_base, new_repo_embedding)) :
          /\ similar_repos' =
               FindSimilarReposResult(knowledge_base, new_repo_embedding, k, order)
          /\ knowledge_base' =
               KnowledgeBaseAfter(knowledge_base, TopIndices(order, k),
                                  Similarities(knowledge_base, new_repo_embedding))
    /\ rpc' = "returned"
    /\ UNCHANGED << new_repo_embedding, k >>
    /\ UNCHANGED << generateVars, injectVars, log >>
    /\ UNCHANGED serviceVars


(***************************************************************************)
(* Generation invoker.                                                     *)
(***************************************************************************)

\* Bound: the longest model payload, in tokens
MaxText == 3

\* model_names of generate, in order of preference
model_names ==
    << "claude-sonnet-4-20250514", "claude-3-5-sonnet-20241022",
       "claude-3-5-sonnet-20240620", "claude-3-sonnet-20240229",
       "claude-3-haiku-20240307" >>

\* Exceptions messages.create can raise (transport, quota, availability)
ApiErrors == { "RateLimitError", "NotFoundError" }

\* A payload is a sequence of tokens: code-fence markers, whitespace, prose,
\* and whole JSON documents.
\* (the three backquotes of a fence marker are written ''' in the tokens)
FenceJson == "'''json"
Fence == "'''"
Space == " "
Prose == "Here is the structure:"
DocValid ==
    "{\"sections\":[{\"title\":\"Setup\",\"children\":[{\"title\":\"Install\",\"children\":[]}]}]}"
DocNoChildren == "{\"sections\":[{\"title\":\"Setup\"}]}"

JsonTexts == { DocValid, DocNoChildren }
Tokens == { FenceJson, Fence, Space, Prose } \cup JsonTexts

Texts == UNION { [1..n -> Tokens] : n \in 0..MaxText }

\* The tokens in which the three backquotes occur, and those in which the
\* three backquotes followed by json occur
BackquoteMarkers == { Fence, FenceJson }
JsonMarkers == { FenceJson }

\* str.find(marker, from) over tokens: least index >= from of a token
\* holding the marker, 0 when there is none (-1 in the code)
FindFrom(text, from, markers) ==
    LET hits == {i \in from..Len(text) : text[i] \in markers}
    IN  IF hits = {} THEN 0 ELSE CHOOSE i \in hits : \A j \in hits : i <= j

\* str.strip(): drop leading and trailing whitespace
Strip(text) ==
    LET keep == {i \in 1..Len(text) : text[i] # Space}
    IN  IF keep = {} THEN << >>
        ELSE LET lo == CHOOSE i \in keep : \A j \in keep : i <= j
                 hi == CHOOSE i \in keep : \A j \in keep : j <= i
             IN  SubSeq(text, lo, hi)

\* _clean_json_response
CleanJsonResponse(text) ==
    LET fj == FindFrom(text, 1, JsonMarkers)
        f  == FindFrom(text, 1, BackquoteMarkers)
        cut(start) ==
            LET stop == FindFrom(text, start, BackquoteMarkers)
            IN  IF stop # 0 THEN SubSeq(text, start, stop - 1) ELSE text
    IN  IF fj # 0 THEN Strip(cut(fj + 1))
        ELSE IF f # 0 THEN Strip(cut(f + 1))
        ELSE Strip(text)

\* json.loads succeeds exactly on one JSON document and nothing else
JsonParses(text) == Len(text) = 1 /\ text[1] \in JsonTexts

\* json.loads on a text that parses
JsonLoads(text) ==
    IF text[1] = DocValid
    THEN [sections |->
            << [title |-> "Setup",
                children |-> << [title |-> "Install", children |-> << >>] >>] >>]
    ELSE [sections |-> << [title |-> "Setup"] >>]

\* raise ValueError(f"{text}{arg}"): the message is the text followed by the
\* interpolated value; the exception carries nothing else
Raised(text, arg) ==
    [status |-> "raised",
     error |-> [type |-> "ValueError", message |-> << text, arg >>]]

Returned(value) == [status |-> "returned", value |-> value]

NoResult == [status |-> "none"]
NoResponse == [kind |-> "none"]

LogRecord(message, text) == [message |-> message, text |-> text]

\* (mutant) the loop without its break
LoopWithoutBreak(resp, tried) == tried < Len(model_names)

\* The for loop of generate goes on while no candidate has answered and
\* candidates remain (`break` on success, exhaustion otherwise).
LoopContinues(resp, tried) ==
    resp = NoResponse /\ tried < Len(model_names)

\* (mutant) only the first failure is remembered
KeepFirstError(prev, e) == IF prev = "None" THEN e ELSE prev

\* except Exception as e: last_error = e
NextLastError(prev, e) == e

\* (mutant) an unparseable payload is replaced by an empty structure
ParseOutcomeRepairing(raw, cleaned) ==
    IF JsonParses(cleaned)
    THEN [result |-> [status |-> "returned", value |-> JsonLoads(cleaned)],
          log |-> << >>]
    ELSE [result |-> [status |-> "returned", value |-> [sections |-> << >>]],
          log |-> << >>]

\* The parse step of generate: json.loads, or the logged ValueError
ParseOutcome(raw, cleaned) ==
    IF JsonParses(cleaned)
    THEN [result |-> Returned(JsonLoads(cleaned)), log |-> << >>]
    ELSE [result |-> Raised("Invalid JSON response from LLM: ", "JSONDecodeError"),
          log |-> << LogRecord("Failed to parse JSON response: ", << >>),
                     LogRecord("Raw response: ", raw),
                     LogRecord("Cleaned response: ", cleaned) >>]

\* Everything after the loop of generate
AfterLoop(resp, lasterr) ==
    IF resp = NoResponse
    THEN [result |-> Raised("All Claude models failed. Last error: ", lasterr),
          log |-> << >>]
    ELSE IF resp.text = << >>
    THEN [result |-> Raised("Empty response from Claude API", ""), log |-> << >>]
    ELSE ParseOutcome(resp.text, CleanJsonResponse(resp.text))

\* AnalysisService._create_fallback_documentation_structure
FallbackDocumentationStructure(name) ==
    [sections |->
        << [title |-> name \o " Overview",
            children |-> << [title |-> "Purpose and Scope"],
                            [title |-> "Architecture Overview"],
                            [title |-> "Technology Stack"],
                            [title |-> "Getting Started"],
                            [title |-> "Key Features"],
                            [title |-> "Documentation"] >>] >>]

NoStructure == [sections |-> << >>, accepted |-> FALSE]

GenerateIdle ==
    /\ gpc = "idle"
    /\ api_key = FALSE
    /\ attempts = << >>
    /\ response = NoResponse
    /\ last_error = "None"
    /\ result = NoResult
    /\ doc_structure = NoStructure

GenerateInit ==
    /\ gpc = "start"
    /\ api_key \in BOOLEAN
    /\ attempts = << >>
    /\ response = NoResponse
    /\ last_error = "None"
    /\ result = NoResult
    /\ doc_structure = NoStructure

\* The default of the parameter k of generate
DefaultK == 3

\* The knowledge bases loaded by the generator whose generate is followed
LoadedKnowledgeBases ==
    { << [repo_url |-> 1, embedding |-> <<1, 0>>] >>,
      << [repo_url |-> 1, embedding |-> <<1, 0>>],
         [repo_url |-> 2, embedding |-> <<0, 1>>] >> }

\* DocStructureGenerator.__init__ followed by the call of generate: the
\* knowledge base is loaded, the query embedding and k are the arguments
LoadedInit ==
    /\ knowledge_base \in LoadedKnowledgeBases
    /\ new_repo_embedding = <<3, 4>>
    /\ k = DefaultK
    /\ similar_repos = << >>
    /\ rpc = "idle"

\* generate up to the loop: embedding and retrieval (_find_similar_repos),
\* then _configure_claude, which raises when no key is available
GenerateStart ==
    /\ gpc = "start"
    /\ \E order \in ArgSorts(Similarities(knowledge_base, new_repo_embedding)) :
          /\ similar_repos' =
               FindSimilarReposResult(knowledge_base, new_repo_embedding, k, order)
          /\ knowledge_base' =
               KnowledgeBaseAfter(knowledge_base, TopIndices(order, k),
                                  Similarities(knowledge_base, new_repo_embedding))
    /\ IF api_key
       THEN /\ gpc' = "loop"
            /\ UNCHANGED << result, log >>
       ELSE /\ gpc' = "done"
            /\ result' = Raised("Anthropic API key not provided", "")
            /\ log' = Append(log, LogRecord("Error in generate method: ", << >>))
    /\ UNCHANGED << api_key, attempts, response, last_error, doc_structure >>
    /\ UNCHANGED << new_repo_embedding, k, rpc, injectVars >>
    /\ UNCHANGED serviceVars

\* One iteration of the loop: messages.create answers
TryModelSucceeds ==
    /\ gpc = "loop"
    /\ LoopContinues(response, Len(attempts))
    /\ LET model_name == model_names[Len(attempts) + 1]
       IN  \E text \in Texts :
             /\ response' = [kind |-> "message", model |-> model_name, text |-> text]
             /\ attempts' = Append(attempts, [model |-> model_name, outcome |-> "ok"])
    /\ UNCHANGED << gpc, api_key, last_error, result, log, doc_structure >>
    /\ UNCHANGED << retrieveVars, injectVars >>
    /\ UNCHANGED serviceVars

\* One iteration of the loop: messages.create raises
TryModelFails ==
    /\ gpc = "loop"
    /\ LoopContinues(response, Len(attempts))
    /\ LET model_name == model_names[Len(attempts) + 1]
       IN  \E e \in ApiErrors :
             /\ last_error' = NextLastError(last_error, e)
             /\ attempts' = Append(attempts, [model |-> model_name, outcome |-> e])
    /\ UNCHANGED << gpc, api_key, response, result, log, doc_structure >>
    /\ UNCHANGED << retrieveVars, injectVars >>
    /\ UNCHANGED serviceVars

\* The rest of generate once the loop has ended
GenerateFinish ==
    /\ gpc = "loop"
    /\ ~LoopContinues(response, Len(attempts))
    /\ LET out == AfterLoop(response, last_error)
       IN  /\ result' = out.result
           /\ log' = IF out.result.status = "raised"
                     THEN log \o out.log \o
                          << LogRecord("Error in generate method: ", << >>) >>
                     ELSE log
    /\ gpc' = "done"
    /\ UNCHANGED << api_key, attempts, response, last_error, doc_structure >>
    /\ UNCHANGED << retrieveVars, injectVars >>
    /\ UNCHANGED serviceVars

\* AnalysisService._generate_documentation_structure around generate: the
\* returned structure, or the fallback structure when generate raised
GenerateDocumentationStructure ==
    /\ gpc = "done"
    /\ doc_structure' =
          IF result.status = "returned"
          THEN [sections |-> result.value.sections, accepted |-> TRUE]
          ELSE [sections |-> FallbackDocumentationStructure("repo").sections,
                accepted |-> TRUE]
    /\ gpc' = "accepted"
    /\ UNCHANGED << api_key, attempts, response, last_error, result, log >>
    /\ UNCHANGED << retrieveVars, injectVars >>
    /\ UNCHANGED serviceVars


(***************************************************************************)
(* Configuration store and section injector.                               *)
(***************************************************************************)

\* Bound: generated plus configured custom sections of one repository
MaxSections == 3

\* get_priority: the key of a section without a priority
NoPriorityKey == 999

\* _assign_default_priorities: base of the position-derived priority
PositionBase == 10

\* CustomSection.priority default
DefaultCustomPriority == 1

\* (mutant) an unstable sort: an element goes before its equals
InsertBeforeEqual(order, i, keys) ==
    LET p == Cardinality({r \in 1..Len(order) : keys[order[r]] < keys[i]})
    IN  SubSeq(order, 1, p) \o << i >> \o SubSeq(order, p + 1, Len(order))

\* list.sort / sorted are stable: each element goes after the elements
\* already placed whose key is not larger
InsertByKey(order, i, keys) ==
    LET p == Cardinality({r \in 1..Len(order) : keys[order[r]] <= keys[i]})
    IN  SubSeq(order, 1, p) \o << i >> \o SubSeq(order, p + 1, Len(order))

RECURSIVE SortedOrder(_, _)
\* The index order of a stable ascending sort of keys[1..n]
SortedOrder(keys, n) ==
    IF n = 0 THEN << >> ELSE InsertByKey(SortedOrder(keys, n - 1), n, keys)

\* sorted(items, key=...) given the key of each item
SortedByKeys(items, keys) ==
    LET order == SortedOrder(keys, Len(items))
    IN  [r \in 1..Len(items) |-> items[order[r]]]

\* dict.get("priority") is None
HasPriority(section) == "priority" \in DOMAIN section

\* get_priority of _merge_sections and _build_combined_navigation
GetPriority(section) ==
    IF HasPriority(section) THEN section.priority ELSE NoPriorityKey

\* str.lower() on the titles of the model
Lower(title) ==
    CASE title = "Installation and Setup" -> "installation and setup"
      [] title = "Development Guide" -> "development guide"
      [] title = "Usage" -> "usage"
      [] title = "FAQ" -> "faq"
      [] OTHER -> title

\* default_priorities of _assign_default_priorities
default_priorities ==
    [t \in { "apache ofbiz overview", "framework architecture",
             "plugin system and extensibility", "installation and setup",
             "development guide", "enterprise process automation",
             "community and contribution", "deployment and operations" } |->
        CASE t = "apache ofbiz overview" -> 1
          [] t = "framework architecture" -> 3
          [] t = "plugin system and extensibility" -> 4
          [] t = "installation and setup" -> 5
          [] t = "development guide" -> 6
          [] t = "enterprise process automation" -> 7
          [] t = "community and contribution" -> 8
          [] t = "deployment and operations" -> 9]

\* section["priority"] = value
WithPriority(section, value) == ("priority" :> value) @@ section

\* The priority _assign_default_priorities gives the section at 0-based
\* position i when it has none
DefaultPriority(section, i) ==
    IF Lower(section.title) \in DOMAIN default_priorities
    THEN default_priorities[Lower(section.title)]
    ELSE PositionBase + i

\* (mutant) every section is given a default priority, also one that has its
\* own
AssignOverExplicit(sections) ==
    [idx \in 1..Len(sections) |->
        WithPriority([f \in DOMAIN sections[idx] \ { "priority" } |->
                         sections[idx][f]],
                     DefaultPriority(sections[idx], idx - 1))]
\* _assign_default_priorities, on the section list
AssignDefaultPriorities(sections) ==
    [idx \in 1..Len(sections) |->
        IF HasPriority(sections[idx]) THEN sections[idx]
        ELSE WithPriority(sections[idx], DefaultPriority(sections[idx], idx - 1))]

\* ConfigService.get_injection_strategy: unrecognised values mean prepend
GetInjectionStrategy(gc) ==
    IF gc.injection_strategy \in { "prepend", "append", "replace", "merge" }
    THEN gc.injection_strategy
    ELSE "prepend"

\* ConfigService._parse_repository_config: custom sections sorted by priority
ParseRepositoryConfig(entry) ==
    [custom_sections |->
        SortedByKeys(entry.custom_sections,
                     [i \in 1..Len(entry.custom_sections) |->
                         entry.custom_sections[i].priority]),
     enabled |-> entry.enabled]

\* _get_custom_section_content: the storage call returns content, returns
\* nothing, or raises; the last two both give success = False
GetCustomSectionContent(store, custom_section) ==
    IF store[custom_section.gcs_path] = "content"
    THEN [success |-> TRUE, content |-> "# " \o custom_section.name]
    ELSE [success |-> FALSE, content |-> ""]

\* The descriptor _inject_custom_sections appends for a fetched section
CustomDescriptor(custom_section, section_content) ==
    [title |-> custom_section.name, name |-> custom_section.name,
     content |-> section_content.content, priority |-> custom_section.priority,
     is_custom |-> TRUE, gcs_path |-> custom_section.gcs_path]

RECURSIVE CollectAbortOnFailure(_, _)
\* (mutant) the loop gives up at the first section whose fetch fails
CollectAbortOnFailure(configured, store) ==
    IF configured = << >> THEN << >>
    ELSE LET custom_section == Head(configured)
             rest == CollectAbortOnFailure(Tail(configured), store)
             section_content == GetCustomSectionContent(store, custom_section)
         IN  IF ~custom_section.enabled THEN rest
             ELSE IF section_content.success
             THEN << CustomDescriptor(custom_section, section_content) >> \o rest
             ELSE << >>

RECURSIVE CollectCustomSections(_, _)
\* The loop of _inject_custom_sections over repo_config.custom_sections
CollectCustomSections(configured, store) ==
    IF configured = << >> THEN << >>
    ELSE LET custom_section == Head(configured)
             rest == CollectCustomSections(Tail(configured), store)
             section_content == GetCustomSectionContent(store, custom_section)
         IN  IF ~custom_section.enabled THEN rest
             ELSE IF section_content.success
             THEN << CustomDescriptor(custom_section, section_content) >> \o rest
             ELSE rest

\* The warnings the loop logs: one per failed fetch when fallback is disabled
FetchWarnings(configured, store, fallback) ==
    LET failed == SelectSeq(configured,
                      LAMBDA c : c.enabled /\ ~GetCustomSectionContent(store, c).success)
    IN  IF fallback THEN << >>
        ELSE [i \in 1..Len(failed) |->
                LogRecord("Custom section not found and fallback disabled: ",
                          << failed[i].name >>)]

\* _build_custom_navigation
BuildCustomNavigation(custom_sections) ==
    LET navigation ==
            [i \in 1..Len(custom_sections) |->
                [title |-> custom_sections[i].name,
                 priority |-> custom_sections[i].priority,
                 is_custom |-> TRUE]]
    IN  SortedByKeys(navigation,
                     [i \in 1..Len(navigation) |-> navigation[i].priority])

\* _build_combined_navigation
BuildCombinedNavigation(sections1, sections2) ==
    LET all_sections == sections1 \o sections2
    IN  SortedByKeys(all_sections,
                     [i \in 1..Len(all_sections) |-> GetPriority(all_sections[i])])

\* (mutant) merging without the sort
MergeUnsorted(existing_sections, custom_sections) ==
    existing_sections \o custom_sections

\* _merge_sections
MergeSections(existing_sections, custom_sections) ==
    LET all_sections == existing_sections \o custom_sections
    IN  SortedByKeys(all_sections,
                     [i \in 1..Len(all_sections) |-> GetPriority(all_sections[i])])

\* (mutant) replace that keeps the generated sections
ReplaceKeepsGenerated(existing_sections, custom_sections) ==
    custom_sections \o existing_sections

\* the REPLACE branch of _apply_injection_strategy
ReplaceSections(existing_sections, custom_sections) == custom_sections

\* (mutant) prepend that puts the custom sections last
PrependPutsLast(existing_sections, custom_sections) ==
    existing_sections \o custom_sections

\* the PREPEND branch of _apply_injection_strategy
PrependSections(existing_sections, custom_sections) ==
    custom_sections \o existing_sections

\* the APPEND branch of _apply_injection_strategy
AppendSections(existing_sections, custom_sections) ==
    existing_sections \o custom_sections

\* _apply_injection_strategy: the section list and the navigation view
ApplyInjectionStrategy(existing_sections, custom_sections, strategy) ==
    CASE strategy = "replace" ->
           [sections |-> ReplaceSections(existing_sections, custom_sections),
            navigation |-> BuildCustomNavigation(custom_sections)]
      [] strategy = "prepend" ->
           [sections |-> PrependSections(existing_sections, custom_sections),
            navigation |-> BuildCombinedNavigation(custom_sections, existing_sections)]
      [] strategy = "append" ->
           [sections |-> AppendSections(existing_sections, custom_sections),
            navigation |-> BuildCombinedNavigation(existing_sections, custom_sections)]
      [] strategy = "merge" ->
           LET merged_sections == MergeSections(existing_sections, custom_sections)
           IN  [sections |-> merged_sections,
                navigation |-> BuildCombinedNavigation(merged_sections, << >>)]

\* get_documentation's test for injecting
InjectionApplies(entry, gc) ==
    entry.present /\ ParseRepositoryConfig(entry).enabled /\ gc.enable_custom_sections

\* get_documentation: what it returns
GetDocumentationResult(stored, entry, gc, store) ==
    IF ~stored.found
    THEN [success |-> FALSE, sections |-> << >>, navigation |-> << >>]
    ELSE LET base == AssignDefaultPriorities(stored.sections)
         IN  IF ~InjectionApplies(entry, gc)
             THEN [success |-> TRUE, sections |-> base, navigation |-> base]
             ELSE LET repo_config == ParseRepositoryConfig(entry)
                      custom_sections ==
                          CollectCustomSections(repo_config.custom_sections, store)
                      strategy == GetInjectionStrategy(gc)
                      applied ==
                          ApplyInjectionStrategy(base, custom_sections, strategy)
                  IN  [success |-> TRUE,
                       sections |-> applied.sections,
                       navigation |-> applied.navigation,
                       injection_info |->
                           [strategy |-> strategy,
                            custom_sections_count |-> Len(custom_sections)]]

\* get_documentation: what it logs
GetDocumentationLog(stored, entry, gc, store) ==
    IF stored.found /\ InjectionApplies(entry, gc)
    THEN FetchWarnings(ParseRepositoryConfig(entry).custom_sections, store,
                       gc.fallback_to_generated)
    ELSE << >>

\* --- inputs of the injection model ---

GenTitles == { "Installation and Setup", "Usage", "FAQ" }
GenPriorities == { 11 }

\* Generated sections as stored: title and children, sometimes a priority
GenItems ==
    { [title |-> t, children |-> << >>] : t \in GenTitles }
    \cup { [title |-> t, children |-> << >>, priority |-> p] :
             t \in GenTitles, p \in GenPriorities }

CustomNames == << "Runbook", "Oncall", "Playbook", "Escalation", "Glossary" >>
CustomPriorities == { DefaultCustomPriority, 11 }

\* What the custom docs bucket does for a path
FetchBehaviours == { "content", "missing", "raises" }

\* A configured custom section together with its content in the bucket; the
\* content of a disabled section exists
CustomItems ==
    { [priority |-> p, enabled |-> TRUE, fetch |-> f] :
        p \in CustomPriorities, f \in FetchBehaviours }
    \cup { [priority |-> p, enabled |-> FALSE, fetch |-> "content"] :
             p \in CustomPriorities }

GcsPath(i) == "custom/" \o CustomNames[i] \o ".md"

SectionConfigs(items) ==
    [i \in 1..Len(items) |->
        [name |-> CustomNames[i], gcs_path |-> GcsPath(i),
         priority |-> items[i].priority, enabled |-> items[i].enabled]]

StoreOf(items) ==
    [path \in {GcsPath(i) : i \in 1..Len(items)} |->
        items[CHOOSE i \in 1..Len(items) : GcsPath(i) = path].fetch]

\* _get_default_config's global_config
DefaultGlobalConfig ==
    [enable_custom_sections |-> TRUE, injection_strategy |-> "prepend",
     fallback_to_generated |-> TRUE]

\* The settings under which get_documentation is exercised: injection with
\* every strategy value and both fallback settings, and each way of not
\* injecting
InjectSettings ==
    { [found |-> TRUE, present |-> TRUE, enabled |-> TRUE,
       global |-> [enable_custom_sections |-> TRUE, injection_strategy |-> st,
                   fallback_to_generated |-> fb]] :
        st \in { "prepend", "append", "replace", "merge", "sideways" },
        fb \in BOOLEAN }
    \cup { [found |-> f, present |-> p, enabled |-> e,
            global |-> [enable_custom_sections |-> g,
                        injection_strategy |-> "prepend",
                        fallback_to_generated |-> TRUE]] :
             f \in BOOLEAN, p \in BOOLEAN, e \in BOOLEAN, g \in BOOLEAN }

NoEnhanced == [success |-> FALSE, sections |-> << >>, navigation |-> << >>]

\* No structure object has been loaded
NoBaseResult == [passed |-> None, sections |-> << >>]

\* base_result["documentationStructure"]["sections"] when get_documentation
\* returns, and (passed) what it was when _apply_injection_strategy was
\* called.  _assign_default_priorities writes the priorities into the
\* section objects it was given; _apply_injection_strategy copies
\* base_result with dict.copy(), which shares the nested
\* documentationStructure object, and assigns its "sections" key.
BaseResultAfter(stored, entry, gc, store) ==
    IF ~stored.found THEN NoBaseResult
    ELSE LET base == AssignDefaultPriorities(stored.sections)
         IN  IF ~InjectionApplies(entry, gc)
             THEN [passed |-> None, sections |-> base]
             ELSE [passed |-> Some(base),
                   sections |->
                       ApplyInjectionStrategy(base,
                           CollectCustomSections(
                               ParseRepositoryConfig(entry).custom_sections, store),
                           GetInjectionStrategy(gc)).sections]

\* _find_custom_section: the first configured section with the name asked
\* for, whatever its enabled flag
FindCustomSection(repo_config, section_name) ==
    LET hits == {i \in 1..Len(repo_config.custom_sections) :
                    Lower(repo_config.custom_sections[i].name) = Lower(section_name)}
    IN  IF hits = { } THEN None
        ELSE Some(repo_config.custom_sections[
                      CHOOSE i \in hits : \A j \in hits : i <= j])

\* What _get_custom_section_content returns to get_documentation_section
CustomSectionResult(store, custom_section) ==
    LET section_content == GetCustomSectionContent(store, custom_section)
    IN  IF section_content.success
        THEN [success |-> TRUE, content |-> section_content.content,
              section |-> custom_section.name, is_custom |-> TRUE]
        ELSE [success |-> FALSE, section |-> custom_section.name]

\* _get_regular_section_content: the markdown file of the section is in the
\* main bucket or it is not
GetRegularSectionContent(section, generated) ==
    IF generated
    THEN [success |-> TRUE, content |-> "generated: " \o section,
          section |-> section, is_custom |-> FALSE]
    ELSE [success |-> FALSE, section |-> section]

\* get_documentation_section
GetDocumentationSectionResult(entry, store, request) ==
    LET repo_config == ParseRepositoryConfig(entry)
        custom_section == FindCustomSection(repo_config, request.section)
    IN  IF entry.present /\ repo_config.enabled /\ custom_section # None
        THEN CustomSectionResult(store, custom_section[1])
        ELSE GetRegularSectionContent(request.section, request.generated)

NoSectionRequest == [section |-> "", generated |-> FALSE]
NoSectionResult == [success |-> FALSE, section |-> ""]

InjectIdle ==
    /\ stored_structure = [found |-> FALSE, sections |-> << >>]
    /\ repositories = [present |-> FALSE, enabled |-> FALSE, custom_sections |-> << >>]
    /\ global_config = DefaultGlobalConfig
    /\ custom_store = << >>
    /\ ipc = "idle"
    /\ enhanced = NoEnhanced
    /\ base_result = NoBaseResult
    /\ section_request = NoSectionRequest
    /\ section_result = NoSectionResult

InjectInit ==
    /\ \E ng \in 0..MaxSections, nc \in 0..MaxSections :
         /\ ng + nc <= MaxSections
         /\ \E gen \in [1..ng -> GenItems], items \in [1..nc -> CustomItems],
               setting \in InjectSettings :
              /\ stored_structure = [found |-> setting.found, sections |-> gen]
              /\ repositories = [present |-> setting.present,
                                 enabled |-> setting.enabled,
                                 custom_sections |-> SectionConfigs(items)]
              /\ global_config = setting.global
              /\ custom_store = StoreOf(items)
    /\ ipc = "call"
    /\ enhanced = NoEnhanced
    /\ base_result = NoBaseResult
    /\ section_request = NoSectionRequest
    /\ section_result = NoSectionResult

\* The service before a section is asked for: one generated section is
\* stored, and the section asked for is a configured custom section or the
\* generated one
SectionInit ==
    /\ \E nc \in 1..(MaxSections - 1) :
         \E items \in [1..nc -> CustomItems],
            present \in BOOLEAN, enabled \in BOOLEAN, enable \in BOOLEAN,
            generated \in BOOLEAN :
              /\ stored_structure =
                    [found |-> TRUE,
                     sections |-> << [title |-> "Usage", children |-> << >>] >>]
              /\ repositories = [present |-> present, enabled |-> enabled,
                                 custom_sections |-> SectionConfigs(items)]
              /\ global_config =
                    [DefaultGlobalConfig EXCEPT !.enable_custom_sections = enable]
              /\ custom_store = StoreOf(items)
              /\ \E section \in {CustomNames[i] : i \in 1..nc} \cup { "Usage" } :
                    section_request = [section |-> section, generated |-> generated]
    /\ ipc = "call"
    /\ enhanced = NoEnhanced
    /\ base_result = NoBaseResult
    /\ section_result = NoSectionResult

\* EnhancedDocumentationService.get_documentation(repo_url)
GetDocumentation ==
    /\ ipc = "call"
    /\ enhanced' = GetDocumentationResult(stored_structure, repositories,
                                          global_config, custom_store)
    /\ base_result' = BaseResultAfter(stored_structure, repositories,
                                      global_config, custom_store)
    /\ log' = log \o GetDocumentationLog(stored_structure, repositories,
                                         global_config, custom_store)
    /\ ipc' = "returned"
    /\ UNCHANGED << stored_structure, repositories, global_config, custom_store >>
    /\ UNCHANGED << section_request, section_result >>
    /\ UNCHANGED << retrieveVars, generateVars >>
    /\ UNCHANGED serviceVars

\* EnhancedDocumentationService._merge_sections(existing, custom) called on
\* the stored sections as they are (no default priorities assigned) and the
\* fetched custom sections
MergeSectionsCall ==
    /\ ipc = "call"
    /\ stored_structure.found
    /\ InjectionApplies(repositories, global_config)
    /\ GetInjectionStrategy(global_config) = "merge"
    /\ enhanced' =
          [success |-> TRUE,
           sections |->
               MergeSections(stored_structure.sections,
                   CollectCustomSections(
                       ParseRepositoryConfig(repositories).custom_sections,
                       custom_store)),
           navigation |-> << >>]
    /\ ipc' = "merged"
    /\ UNCHANGED << stored_structure, repositories, global_config, custom_store, log >>
    /\ UNCHANGED << base_result, section_request, section_result >>
    /\ UNCHANGED << retrieveVars, generateVars >>
    /\ UNCHANGED serviceVars

\* EnhancedDocumentationService.get_documentation_section(repo_url, section)
GetDocumentationSection ==
    /\ ipc = "call"
    /\ section_request # NoSectionRequest
    /\ section_result' = GetDocumentationSectionResult(repositories, custom_store,
                                                       section_request)
    /\ ipc' = "section_returned"
    /\ UNCHANGED << stored_structure, repositories, global_config, custom_store,
                    enhanced, base_result, section_request, log >>
    /\ UNCHANGED << retrieveVars, generateVars >>
    /\ UNCHANGED serviceVars

(***************************************************************************)
(* ConfigService (src/services/config_service.py): the configuration file, *)
(* the cache kept by _load_config, reload_config and the repository        *)
(* lookup.                                                                 *)
(***************************************************************************)

\* Largest modification time the configuration file takes
MaxMtime == 2

\* Largest number of keys of the `repositories` mapping
MaxRepos == 2

\* Longest repository URL looked up
MaxUrl == 3

\* A parsed configuration document; `repositories` lists the keys of the
\* mapping in file order (a Python dict keeps insertion order)
Document(repos) == [kind |-> "mapping", repositories |-> repos]

\* File content on which open() or yaml.safe_load raises
Unreadable == [kind |-> "unreadable"]

\* ConfigService._get_default_config
GetDefaultConfig == Document(<< >>)

\* The state of config_path on disk
NoFile == [exists |-> FALSE, mtime |-> 0, content |-> Unreadable]
FileOf(mtime, content) == [exists |-> TRUE, mtime |-> mtime, content |-> content]

\* The documents the cache specification writes to the file
ConfigDocuments == { Document(<< <<"a", "b">> >>), Document(<< <<"a", "*">> >>) }

\* _load_config lines 71-73: TRUE when the cached document is served as is
CacheFreshUntilOlder(cache, ts, mtime) == cache # None /\ ts # None /\ mtime < ts[1]
CacheIsFresh(cache, ts, mtime) ==
    /\ cache # None
    /\ ts # None
    /\ mtime <= ts[1]

\* ConfigService._load_config: the new cache and timestamp, whether the file
\* was opened for parsing, and the configuration returned
LoadConfig(file, cache, ts) ==
    IF ~file.exists
    THEN [cache |-> cache, ts |-> ts, parsed |-> FALSE,
          returned |-> GetDefaultConfig]
    ELSE IF CacheIsFresh(cache, ts, file.mtime)
    THEN [cache |-> cache, ts |-> ts, parsed |-> FALSE,
          returned |-> cache[1]]
    ELSE IF file.content = Unreadable
    THEN [cache |-> cache, ts |-> ts, parsed |-> TRUE,
          returned |-> GetDefaultConfig]
    ELSE [cache |-> Some(file.content), ts |-> Some(file.mtime),
          parsed |-> TRUE, returned |-> file.content]

\* ConfigService.reload_config: the cache and timestamp it leaves
ReloadKeepsCache(cache, ts) == [cache |-> cache, ts |-> ts]
ReloadConfig(cache, ts) == [cache |-> None, ts |-> None]

\* The record kept of the latest ConfigService call: what the call saw
\* (the file, the cache and timestamp before it, the call before it) and
\* what it did
CallRecord(op, file, cache, ts, previous, parsed, returned) ==
    [op |-> op, file |-> file, cache_before |-> cache, ts_before |-> ts,
     previous |-> previous, parsed |-> parsed, returned |-> returned]

\* What a call record keeps of the call before it
Previous(call) == [op |-> call.op, ts_before |-> call.ts_before]

NoCall ==
    CallRecord("none", NoFile, None, None, [op |-> "none", ts_before |-> None],
               FALSE, GetDefaultConfig)

ConfigIdle ==
    /\ config_file = NoFile
    /\ config_cache = None
    /\ last_modified = None
    /\ config_call = NoCall

\* ConfigService.__init__: nothing cached; the file may or may not exist
ConfigInit ==
    /\ config_file \in { NoFile } \cup
           { FileOf(0, c) : c \in ConfigDocuments \cup { Unreadable } }
    /\ config_cache = None
    /\ last_modified = None
    /\ config_call = NoCall

\* Any accessor of the configuration (get_global_config, ...): _load_config
LoadConfigCall ==
    /\ LET out == LoadConfig(config_file, config_cache, last_modified) IN
         /\ config_cache' = out.cache
         /\ last_modified' = out.ts
         /\ config_call' = CallRecord("load", config_file, config_cache,
                                      last_modified, Previous(config_call),
                                      out.parsed, out.returned)
    /\ UNCHANGED config_file
    /\ UNCHANGED << coreVars, batchVars, log, lookupVars, buildVars, corpusVars,
                    sanitizeVars, promptVars >>

\* ConfigService.reload_config
ReloadConfigCall ==
    /\ LET out == ReloadConfig(config_cache, last_modified) IN
         /\ config_cache' = out.cache
         /\ last_modified' = out.ts
    /\ config_call' = CallRecord("reload", config_file, config_cache,
                                 last_modified, Previous(config_call),
                                 FALSE, GetDefaultConfig)
    /\ UNCHANGED config_file
    /\ UNCHANGED << coreVars, batchVars, log, lookupVars, buildVars, corpusVars,
                    sanitizeVars, promptVars >>

\* The environment rewrites the configuration file; the file system stamps it
\* with a modification time (a restored file can carry an older one)
WriteConfigFile ==
    /\ \E m \in 0..MaxMtime, c \in ConfigDocuments \cup { Unreadable } :
          config_file' = FileOf(m, c)
    /\ UNCHANGED << config_cache, last_modified, config_call >>
    /\ UNCHANGED << coreVars, batchVars, log, lookupVars, buildVars, corpusVars,
                    sanitizeVars, promptVars >>

\* The environment removes the configuration file
DeleteConfigFile ==
    /\ config_file.exists
    /\ config_file' = NoFile
    /\ UNCHANGED << config_cache, last_modified, config_call >>
    /\ UNCHANGED << coreVars, batchVars, log, lookupVars, buildVars, corpusVars,
                    sanitizeVars, promptVars >>

\* --- repository lookup ---

\* Characters of the repository URLs looked up
UrlChars == { "a", "b", "." }

\* The keys a `repositories` mapping is written with: exact URLs and
\* wildcard patterns
Patterns ==
    { <<"a", "b">>, <<"a", "*">>, <<"*", "b">>, <<"a", "*", "b">>,
      <<"a", ".", "*">>, <<"*">> }

\* Repository URLs: non-empty strings of at most MaxUrl characters
Urls == UNION { [1..n -> UrlChars] : n \in 1..MaxUrl }

\* `repositories` mappings: at most MaxRepos distinct keys, in file order
RepositoryMappings ==
    UNION { { m \in [1..n -> Patterns] :
                \A i, j \in 1..n : m[i] = m[j] => i = j } : n \in 0..MaxRepos }

\* pattern.replace('*', '.*'): the regular expression as a sequence of
\* tokens; '.' is left unescaped and stays the any-character token
RegexPattern(pattern) ==
    [i \in 1..Len(pattern) |->
        IF pattern[i] = "*" THEN "any*"
        ELSE IF pattern[i] = "." THEN "any"
        ELSE pattern[i]]

\* The lengths n for which the first i tokens of regex match exactly the
\* first n characters of s
RECURSIVE MatchEnds(_, _, _)
MatchEnds(regex, i, s) ==
    IF i = 0 THEN { 0 }
    ELSE LET before == MatchEnds(regex, i - 1, s) IN
         IF regex[i] = "any*"
         THEN { n \in 0..Len(s) : \E e \in before : e <= n }
         ELSE IF regex[i] = "any"
         THEN { e + 1 : e \in { x \in before : x < Len(s) } }
         ELSE { e + 1 : e \in { x \in before : x < Len(s) /\ s[x + 1] = regex[i] } }

\* bool(re.match(regex, s)): the expression matches at the start of s; the
\* match need not reach the end of s
ReMatch(regex, s) == MatchEnds(regex, Len(regex), s) # { }

\* ConfigService._matches_pattern
MatchesPattern(url, pattern) ==
    IF \E i \in 1..Len(pattern) : pattern[i] = "*"
    THEN ReMatch(RegexPattern(pattern), url)
    ELSE url = pattern

\* The value get_repository_config returns: the key whose entry was parsed,
\* or nothing
NoRepositoryConfig == [found |-> FALSE, key |-> << >>]
FoundUnder(key) == [found |-> TRUE, key |-> key]

\* get_repository_config lines 117-130 on the loaded configuration
LookupRepository(config, url) ==
    LET repos == config.repositories
        hits  == { i \in 1..Len(repos) : MatchesPattern(url, repos[i]) }
    IN  IF \E i \in 1..Len(repos) : repos[i] = url
        THEN FoundUnder(url)
        ELSE IF hits # { }
        THEN FoundUnder(repos[CHOOSE i \in hits : \A j \in hits : i <= j])
        ELSE NoRepositoryConfig

LookupIdle ==
    /\ repo_url = << >>
    /\ found_config = NoRepositoryConfig
    /\ lpc = "idle"

\* A service whose configuration file holds some `repositories` mapping, is
\* missing or cannot be parsed, about to look a repository up
LookupInit ==
    /\ config_file \in { NoFile, FileOf(0, Unreadable) } \cup
           { FileOf(0, Document(m)) : m \in RepositoryMappings }
    /\ config_cache = None
    /\ last_modified = None
    /\ config_call = NoCall
    /\ repo_url \in Urls
    /\ found_config = NoRepositoryConfig
    /\ lpc = "call"

\* ConfigService.get_repository_config(repo_url)
GetRepositoryConfig ==
    /\ lpc = "call"
    /\ LET out == LoadConfig(config_file, config_cache, last_modified) IN
         /\ config_cache' = out.cache
         /\ last_modified' = out.ts
         /\ config_call' = CallRecord("load", config_file, config_cache,
                                      last_modified, Previous(config_call),
                                      out.parsed, out.returned)
         /\ found_config' = LookupRepository(out.returned, repo_url)
    /\ lpc' = "returned"
    /\ UNCHANGED << config_file, repo_url >>
    /\ UNCHANGED << coreVars, batchVars, log, buildVars, corpusVars, sanitizeVars, promptVars >>

(***************************************************************************)
(* Knowledge-base builder (src/src/preprocess.py) and its two drivers:     *)
(* preprocess.main and main.build_knowledge_base_if_needed.                *)
(***************************************************************************)

\* Largest number of *_analysis.json files in the metadata directory
MaxFiles == 2

\* Repository identifiers that have an accepted structure in some mapping
StructuredUrls == { "r1", "r2" }

\* The analysis files: the two identifier fields of the metadata, and where
\* processing raises ("load": json.load, "encode": model.encode, "no")
AnalysisRecord(url, repo, raises) ==
    [github_url |-> url, github_repo |-> repo, raises |-> raises]

AnalysisRecords ==
    { AnalysisRecord("r1", "", "no"),
      AnalysisRecord("", "r2", "no"),
      AnalysisRecord("r3", "", "no"),
      AnalysisRecord("", "", "no"),
      AnalysisRecord("r1", "", "encode"),
      AnalysisRecord("r2", "", "load") }

\* Outcomes of load_deepwiki_docs: the mapping (its keys), or the exception
\* it re-raises
DeepwikiLoads ==
    { [status |-> "ok", urls |-> u] : u \in SUBSET StructuredUrls } \cup
    { [status |-> "FileNotFoundError", urls |-> { }],
      [status |-> "JSONDecodeError", urls |-> { }] }

\* metadata.get('github_url', '') or metadata.get('github_repo', '')
RepoUrlOf(record) ==
    IF record.github_url # "" THEN record.github_url ELSE record.github_repo

\* One pass of the loop body of process_repository_files (lines 148-191):
\* "entry" when the record is appended, otherwise why it is skipped
SkipEveryRecord(record, mapping) == "error"
ProcessRecord(record, mapping) ==
    IF record.raises = "load" THEN "error"
    ELSE IF RepoUrlOf(record) = "" THEN "no_url"
    ELSE IF RepoUrlOf(record) \notin mapping THEN "no_structure"
    ELSE IF record.raises = "encode" THEN "error"
    ELSE "entry"

\* The kb_entry built at lines 174-180 (embedding and corpus text left out)
KbEntry(i, record) ==
    [repo_url |-> RepoUrlOf(record), metadata |-> record, file |-> i,
     doc_structure |-> RepoUrlOf(record)]

\* The warning or error logged for a skipped record
SkipLog(outcome, i) ==
    IF outcome = "no_url"
    THEN LogRecord("No github_url or github_repo found, skipping", << i >>)
    ELSE IF outcome = "no_structure"
    THEN LogRecord("No documentation structure found, skipping", << i >>)
    ELSE LogRecord("Error processing ", << i >>)

\* Whether the driver goes on to save: `if not knowledge_base` (preprocess.py
\* line 238), `if knowledge_base` (main.py line 124)
SaveAlways(kb) == TRUE
ShouldSave(kb) == kb # << >>

BuildIdle ==
    /\ analysis_files = << >>
    /\ deepwiki = [status |-> "ok", urls |-> { }]
    /\ driver = "none"
    /\ built = << >>
    /\ file_index = 0
    /\ skipped_count = 0
    /\ kb_file = None
    /\ bpc = "idle"

\* A driver about to build: the knowledge-base file does not exist yet, or
\* (build_knowledge_base_if_needed only) an earlier build left one
BuildInit ==
    /\ \E n \in 0..MaxFiles : analysis_files \in [1..n -> AnalysisRecords]
    /\ deepwiki \in DeepwikiLoads
    /\ driver \in { "preprocess.main", "build_knowledge_base_if_needed" }
    /\ built = << >>
    /\ file_index = 0
    /\ skipped_count = 0
    /\ kb_file \in { None, Some(<< KbEntry(1, AnalysisRecord("r1", "", "no")) >>) }
    /\ bpc = "start"

\* The driver up to the loop. build_knowledge_base_if_needed returns True
\* without building when the file exists ("exists"). When load_deepwiki_docs
\* raises, preprocess.main re-raises ("raised") and
\* build_knowledge_base_if_needed returns False from its handler ("caught").
\* Otherwise process_repository_files starts; with no files its loop is over
\* at once. The pickle written by save_knowledge_base is taken to succeed.
BuildStart ==
    /\ bpc = "start"
    /\ IF driver = "build_knowledge_base_if_needed" /\ kb_file # None
       THEN bpc' = "exists" /\ UNCHANGED log
       ELSE IF deepwiki.status # "ok"
       THEN /\ bpc' = (IF driver = "preprocess.main" THEN "raised"
                       ELSE "caught")
            /\ log' = Append(log, LogRecord("Error in main process: ", << >>))
       ELSE bpc' = "loop" /\ UNCHANGED log
    /\ UNCHANGED << analysis_files, deepwiki, driver, built, file_index,
                    skipped_count, kb_file >>
    /\ UNCHANGED << coreVars, batchVars, configVars, lookupVars, corpusVars, sanitizeVars,
                    promptVars >>

\* One iteration of `for file_path in analysis_files`
ProcessFile ==
    /\ bpc = "loop"
    /\ file_index < Len(analysis_files)
    /\ LET i        == file_index + 1
           record   == analysis_files[i]
           outcome  == ProcessRecord(record, deepwiki.urls)
       IN  /\ file_index' = i
           /\ IF outcome = "entry"
              THEN /\ built' = Append(built, KbEntry(i, record))
                   /\ UNCHANGED << skipped_count, log >>
              ELSE /\ skipped_count' = skipped_count + 1
                   /\ log' = Append(log, SkipLog(outcome, i))
                   /\ UNCHANGED built
    /\ UNCHANGED << analysis_files, deepwiki, driver, kb_file, bpc >>
    /\ UNCHANGED << coreVars, batchVars, configVars, lookupVars, corpusVars, sanitizeVars,
                    promptVars >>

\* The loop is over: process_repository_files returns and the driver saves
\* the knowledge base or gives up
FinishBuild ==
    /\ bpc = "loop"
    /\ file_index = Len(analysis_files)
    /\ IF ShouldSave(built)
       THEN /\ kb_file' = Some(built)
            /\ bpc' = (IF driver = "preprocess.main" THEN "saved"
                       ELSE "returned_true")
            /\ UNCHANGED log
       ELSE /\ bpc' = (IF driver = "preprocess.main" THEN "exited"
                       ELSE "returned_false")
            /\ log' = Append(log,
                   LogRecord("No knowledge base entries created", << >>))
            /\ UNCHANGED kb_file
    /\ UNCHANGED << analysis_files, deepwiki, driver, built, file_index,
                    skipped_count >>
    /\ UNCHANGED << coreVars, batchVars, configVars, lookupVars, corpusVars, sanitizeVars,
                    promptVars >>

(***************************************************************************)
(* Corpus text: create_corpus_text in src/src/preprocess.py and            *)
(* _create_corpus_text in src/src/generator.py.                            *)
(***************************************************************************)

\* Longest technology list of a metadata record
MaxTechs == 2

\* JSON values of a metadata field: a missing key, a string, a list of
\* strings, or an object
Absent == [kind |-> "absent"]
Str(s) == [kind |-> "str", value |-> s]
List(items) == [kind |-> "list", items |-> items]
Dict(keys, values) == [kind |-> "dict", keys |-> keys, values |-> values]

\* Python truth value of a field read with metadata.get(key, default)
Truthy(v) ==
    IF v.kind = "str" THEN v.value # ""
    ELSE IF v.kind = "list" THEN v.items # << >>
    ELSE IF v.kind = "dict" THEN v.keys # << >>
    ELSE FALSE

\* sep.join(parts) on strings
RECURSIVE Join(_, _)
Join(parts, sep) ==
    IF parts = << >> THEN ""
    ELSE IF Len(parts) = 1 THEN parts[1]
    ELSE parts[1] \o sep \o Join(Tail(parts), sep)

\* The loop over tech_stack.items(): a list value is spliced in, any other
\* value is appended as str(value)
RECURSIVE AllTechs(_, _)
AllTechs(dict, i) ==
    IF i > Len(dict.keys) THEN << >>
    ELSE (IF dict.values[i].kind = "list" THEN dict.values[i].items
          ELSE << dict.values[i].value >>) \o AllTechs(dict, i + 1)

\* tech_string (lines 101-115)
TechString(tech_stack) ==
    IF tech_stack.kind = "dict" THEN Join(AllTechs(tech_stack, 1), ", ")
    ELSE IF tech_stack.kind = "list" THEN Join(tech_stack.items, ", ")
    ELSE tech_stack.value

\* The part appended for the overview (lines 82-84)
OverviewWithPlaceholder(record) ==
    IF Truthy(record.overview)
    THEN << "Overview: " \o record.overview.value >>
    ELSE << "Overview: N/A" >>
OverviewPart(record) ==
    IF Truthy(record.overview)
    THEN << "Overview: " \o record.overview.value >>
    ELSE << >>

\* The part appended for the business domain (lines 87-89)
BusinessDomainPart(record) ==
    IF Truthy(record.business_domain)
    THEN << "Business Domain: " \o record.business_domain.value >>
    ELSE << >>

\* The part appended for the architecture description (lines 92-96)
ArchitecturePart(record) ==
    IF /\ record.architecture.kind = "dict"
       /\ Truthy(record.architecture.description)
    THEN << "Architecture: " \o record.architecture.description.value >>
    ELSE << >>

\* The part appended for the technology stack (lines 99-116)
TechStackPart(record) ==
    IF Truthy(record.tech_stack)
    THEN << "Tech Stack: " \o TechString(record.tech_stack) >>
    ELSE << >>

\* create_corpus_text
CreateCorpusText(record) ==
    Join(OverviewPart(record) \o BusinessDomainPart(record)
           \o ArchitecturePart(record) \o TechStackPart(record), " ")

\* DocStructureGenerator._create_corpus_text: the loop over
\* tech_stack.items() (generator.py lines 106-111)
RECURSIVE GeneratorAllTechs(_, _)
GeneratorAllTechs(tech_stack, i) ==
    IF i > Len(tech_stack.keys) THEN << >>
    ELSE LET techs == tech_stack.values[i]
         IN  (IF techs.kind = "list" THEN techs.items ELSE << techs.value >>)
                 \o GeneratorAllTechs(tech_stack, i + 1)

\* DocStructureGenerator._create_corpus_text: corpus_parts before the join
GeneratorCorpusParts(record) ==
    LET overview == record.overview
        business_domain == record.business_domain
        architecture == record.architecture
        tech_stack == record.tech_stack
        tech_string ==
            IF tech_stack.kind = "dict"
            THEN Join(GeneratorAllTechs(tech_stack, 1), ", ")
            ELSE IF tech_stack.kind = "list" THEN Join(tech_stack.items, ", ")
            ELSE tech_stack.value
    IN  (IF Truthy(overview) THEN << "Overview: " \o overview.value >> ELSE << >>)
        \o (IF Truthy(business_domain)
            THEN << "Business Domain: " \o business_domain.value >> ELSE << >>)
        \o (IF architecture.kind = "dict" /\ Truthy(architecture.description)
            THEN << "Architecture: " \o architecture.description.value >>
            ELSE << >>)
        \o (IF Truthy(tech_stack) THEN << "Tech Stack: " \o tech_string >>
            ELSE << >>)

\* (mutant) the parts joined by line breaks
GeneratorJoinLines(record) == Join(GeneratorCorpusParts(record), "\n")
\* DocStructureGenerator._create_corpus_text
GeneratorCreateCorpusText(record) == Join(GeneratorCorpusParts(record), " ")

\* Metadata records as the analysis files hold them
Overviews == { Absent, Str(""), Str("Billing API") }
BusinessDomains == { Absent, Str(""), Str("Fintech") }
Architectures ==
    { Absent, Str("monolith"),
      [kind |-> "dict", description |-> Absent],
      [kind |-> "dict", description |-> Str("")],
      [kind |-> "dict", description |-> Str("Layered")] }
Techs == { "Go", "React" }
TechLists == UNION { [1..n -> Techs] : n \in 0..MaxTechs }
TechStacks ==
    { Absent, Str("Rust"), Dict(<< >>, << >>),
      Dict(<< "backend", "database" >>, << List(<< "Go" >>), Str("Postgres") >>),
      Dict(<< "frontend" >>, << List(<< "React", "Vue" >>) >>),
      Dict(<< "backend", "frontend" >>,
           << List(<< "Go" >>), List(<< "Go", "React" >>) >>),
      Dict(<< "frontend" >>, << List(<< >>) >>) }
      \cup { List(t) : t \in TechLists }
MetadataRecords ==
    [overview : Overviews, business_domain : BusinessDomains,
     architecture : Architectures, tech_stack : TechStacks]

CorpusIdle ==
    /\ metadata = [overview |-> Absent, business_domain |-> Absent,
                   architecture |-> Absent, tech_stack |-> Absent]
    /\ corpus_text = ""
    /\ cpc = "idle"
    /\ query_corpus_text = None

CorpusInit ==
    /\ metadata \in MetadataRecords
    /\ corpus_text = ""
    /\ cpc = "call"
    /\ query_corpus_text = None

\* KnowledgeBaseBuilder.create_corpus_text(metadata)
CreateCorpusTextCall ==
    /\ cpc = "call"
    /\ corpus_text' = CreateCorpusText(metadata)
    /\ cpc' = "returned"
    /\ UNCHANGED << metadata, query_corpus_text >>
    /\ UNCHANGED << coreVars, batchVars, log, configVars, lookupVars, buildVars, sanitizeVars,
                    promptVars >>

\* DocStructureGenerator._create_corpus_text(new_repo_metadata) on the same
\* metadata record
GeneratorCreateCorpusTextCall ==
    /\ cpc # "idle"
    /\ query_corpus_text = None
    /\ query_corpus_text' = Some(GeneratorCreateCorpusText(metadata))
    /\ UNCHANGED << metadata, corpus_text, cpc >>
    /\ UNCHANGED << coreVars, batchVars, log, configVars, lookupVars, buildVars, sanitizeVars,
                    promptVars >>

(***************************************************************************)
(* File-name sanitizers keyed by section title.                            *)
(***************************************************************************)

\* Longest title drawn from TitleChars
MaxTitle == 3

\* The characters every sanitizer replaces
InvalidChars == { "<", ">", ":", "\"", "/", "\\", "|", "?", "*" }

\* Python whitespace removed by str.strip()
Whitespace == { " " }

\* re.sub(r'[<>:"/\\|?*]', '_', s) and the loop of s.replace(char, '_')
ReplaceInvalid(s) ==
    [i \in 1..Len(s) |-> IF s[i] \in InvalidChars THEN "_" ELSE s[i]]

\* s.replace(' ', '_')
ReplaceSpaces(s) ==
    [i \in 1..Len(s) |-> IF s[i] = " " THEN "_" ELSE s[i]]

\* re.sub(r'_+', '_', s)
RECURSIVE CollapseUnderscores(_)
CollapseUnderscores(s) ==
    IF Len(s) <= 1 THEN s
    ELSE IF s[1] = "_" /\ s[2] = "_" THEN CollapseUnderscores(Tail(s))
    ELSE << s[1] >> \o CollapseUnderscores(Tail(s))

\* s.lstrip(chars) and s.strip(chars)
RECURSIVE LStrip(_, _)
LStrip(s, chars) ==
    IF s # << >> /\ s[1] \in chars THEN LStrip(Tail(s), chars) ELSE s
StripOf(s, chars) == Reverse(LStrip(Reverse(LStrip(s, chars)), chars))

\* s.split('_'): the pieces between underscores, empty pieces included
RECURSIVE SplitUnderscore(_)
SplitUnderscore(s) ==
    IF \A i \in 1..Len(s) : s[i] # "_" THEN << s >>
    ELSE LET p == CHOOSE i \in 1..Len(s) :
                      s[i] = "_" /\ \A j \in 1..(i - 1) : s[j] # "_"
         IN  << SubSeq(s, 1, p - 1) >> \o SplitUnderscore(SubSeq(s, p + 1, Len(s)))

\* '_'.join(pieces) on character sequences
RECURSIVE JoinUnderscore(_)
JoinUnderscore(pieces) ==
    IF pieces = << >> THEN << >>
    ELSE IF Len(pieces) = 1 THEN pieces[1]
    ELSE pieces[1] \o << "_" >> \o JoinUnderscore(Tail(pieces))

\* AnalysisService._sanitize_filename (WikiService has the same body)
AnalysisSanitizeFilename(name) ==
    StripOf(CollapseUnderscores(ReplaceSpaces(ReplaceInvalid(name))), { "_" })

\* EnhancedDocumentationService._sanitize_filename
EnhancedSanitizeFilename(name) ==
    StripOf(CollapseUnderscores(ReplaceInvalid(name)), { "_" })

\* DocumentationServiceGCS._sanitize_filename (AnalysisServiceGCS has the
\* same body)
GcsSanitizeFilename(name) ==
    StripOf(JoinUnderscore(SelectSeq(SplitUnderscore(ReplaceInvalid(name)),
                                     LAMBDA piece : piece # << >>)),
            Whitespace)

\* Section titles: every string over TitleChars up to MaxTitle characters,
\* and the title 'API / Reference: Guide'
TitleChars == { "A", " ", "/", "_" }
ScenarioTitle ==
    << "A", "P", "I", " ", "/", " ", "R", "e", "f", "e", "r", "e", "n", "c",
       "e", ":", " ", "G", "u", "i", "d", "e" >>
SectionTitles ==
    UNION { [1..n -> TitleChars] : n \in 0..MaxTitle } \cup { ScenarioTitle }

NotSanitized == [analysis |-> << >>, enhanced |-> << >>, gcs |-> << >>]

SanitizeIdle ==
    /\ filename = << >>
    /\ sanitized = NotSanitized
    /\ spc = "idle"

SanitizeInit ==
    /\ filename \in SectionTitles
    /\ sanitized = NotSanitized
    /\ spc = "call"

\* The same section title handed to each service's _sanitize_filename
SanitizeFilenameCall ==
    /\ spc = "call"
    /\ sanitized' = [analysis |-> AnalysisSanitizeFilename(filename),
                     enhanced |-> EnhancedSanitizeFilename(filename),
                     gcs |-> GcsSanitizeFilename(filename)]
    /\ spc' = "returned"
    /\ UNCHANGED filename
    /\ UNCHANGED << coreVars, batchVars, log, configVars, lookupVars, buildVars, corpusVars,
                    promptVars >>

(***************************************************************************)
(* Prompt construction (DocStructureGenerator._construct_prompt).          *)
(***************************************************************************)

\* Largest number of retrieved entries handed to _construct_prompt
MaxExamples == 2

\* The indent passed to json.dumps
PromptIndent == 2

\* json.dumps(value, indent=2): the JSON text of the value
JsonDumps(value) == [kind |-> "json", indent |-> PromptIndent, of |-> value]

\* f"{score:.3f}": the score, held in ten-thousandths, rounded to three
\* decimals
FormatScore(score) ==
    LET thousandths == (score + 5) \div 10
    IN  [whole |-> thousandths \div 1000, decimals |-> thousandths % 1000]

\* The three lines written for one retrieved entry (lines 187-189)
ExampleWithoutStructure(i, repo) ==
    << [kind |-> "example", index |-> i, repo_url |-> repo.repo_url],
       [kind |-> "score", text |-> FormatScore(repo.similarity_score)] >>
ExampleLines(i, repo) ==
    << [kind |-> "example", index |-> i, repo_url |-> repo.repo_url],
       [kind |-> "score", text |-> FormatScore(repo.similarity_score)],
       [kind |-> "structure", text |-> JsonDumps(repo.doc_structure)] >>

\* examples_str
RECURSIVE ExamplesStr(_, _)
ExamplesStr(repos, i) ==
    IF i > Len(repos) THEN << >>
    ELSE ExampleLines(i, repos[i]) \o ExamplesStr(repos, i + 1)

\* _construct_prompt: the prompt as the sequence of its parts
ConstructPrompt(new_metadata, repos) ==
    << [kind |-> "instructions"],
       [kind |-> "metadata", text |-> JsonDumps(new_metadata)] >>
    \o ExamplesStr(repos, 1)
    \o << [kind |-> "task"], [kind |-> "format"] >>

\* Retrieved entries as _find_similar_repos returns them
PromptScores == { 0, 9574, 9576, 10000 }
PromptStructures ==
    { [sections |-> << >>],
      [sections |-> << [title |-> "Overview", children |-> << >>] >>] }
RetrievedEntries ==
    [repo_url : { "r1", "r2" }, similarity_score : PromptScores,
     doc_structure : PromptStructures]
PromptMetadata ==
    { [overview |-> Absent, business_domain |-> Absent,
       architecture |-> Absent, tech_stack |-> Absent],
      [overview |-> Str("Billing API"), business_domain |-> Str("Fintech"),
       architecture |-> Absent, tech_stack |-> List(<< "Go" >>)] }

PromptIdle ==
    /\ new_repo_metadata = [overview |-> Absent, business_domain |-> Absent,
                            architecture |-> Absent, tech_stack |-> Absent]
    /\ retrieved = << >>
    /\ prompt = << >>
    /\ ppc = "idle"

PromptInit ==
    /\ new_repo_metadata \in PromptMetadata
    /\ \E n \in 0..MaxExamples : retrieved \in [1..n -> RetrievedEntries]
    /\ prompt = << >>
    /\ ppc = "call"

\* DocStructureGenerator._construct_prompt(new_repo_metadata, similar_repos)
ConstructPromptCall ==
    /\ ppc = "call"
    /\ prompt' = ConstructPrompt(new_repo_metadata, retrieved)
    /\ ppc' = "returned"
    /\ UNCHANGED << new_repo_metadata, retrieved >>
    /\ UNCHANGED << coreVars, batchVars, log, configVars, lookupVars, buildVars, corpusVars,
                    sanitizeVars >>

(***************************************************************************)
(* Batch generation of section content:                                    *)
(* ComprehensiveADocSService._generate_and_save_enhanced_pages, a          *)
(* coroutine that walks the documentation structure, generates the content *)
(* of one section at a time, writes it to a file named after the section   *)
(* title and sleeps between two sections.  _generate_enhanced_content      *)
(* calls the model API synchronously and handles its own errors, so the    *)
(* coroutine is suspended at await asyncio.sleep(0.5) and nowhere else;    *)
(* a Task.cancel() of the batch is delivered there, as a CancelledError,   *)
(* which is not an Exception (Python 3.8 and later).                       *)
(***************************************************************************)

\* Largest number of top-level sections of a batch
MaxBatch == 2

\* ComprehensiveADocSService._sanitize_filename: the same statements as
\* DocumentationServiceGCS._sanitize_filename
ComprehensiveSanitizeFilename(name) ==
    StripOf(JoinUnderscore(SelectSeq(SplitUnderscore(ReplaceInvalid(name)),
                                     LAMBDA piece : piece # << >>)),
            Whitespace)

\* process_sections: the titles in the order the sections are processed, a
\* section before its children and its children before the next section
RECURSIVE ProcessingOrder(_)
ProcessingOrder(sections) ==
    IF sections = << >> THEN << >>
    ELSE << Head(sections).title >>
            \o ProcessingOrder(Head(sections).children)
            \o ProcessingOrder(Tail(sections))

\* safe_filename of the section processed idx-th
SafeFilename(order, idx) == ComprehensiveSanitizeFilename(order[idx])

\* The text the idx-th call of _generate_enhanced_content returned
ContentOf(idx) == [call |-> idx]

\* with open(markdown_file, 'w') as f: f.write(enhanced_content)
WriteFile(dir, name, content) ==
    [n \in DOMAIN dir \cup { name } |-> IF n = name THEN content ELSE dir[n]]

NoBatchReturn == [status |-> "none"]

\* Where the coroutine goes once the section processed idx-th is done with:
\* on to the next section, or out of the loops with return saved_files
AfterSection(order, idx, saved) ==
    IF idx = Len(order)
    THEN [pc |-> "returned", return |-> [status |-> "returned", value |-> saved]]
    ELSE [pc |-> "generate", return |-> NoBatchReturn]

\* Section titles of a batch and the structures built from them: top-level
\* sections with at most one child each
BatchTitles == { << "A" >>, << "A", "/" >>, << "B" >> }
BatchSections ==
    { [title |-> t, children |-> << >>] : t \in BatchTitles }
    \cup { [title |-> t,
            children |-> << [title |-> c, children |-> << >>] >>] :
             t \in BatchTitles, c \in BatchTitles }
BatchStructures == UNION { [1..n -> BatchSections] : n \in 0..MaxBatch }

BatchIdle ==
    /\ batch_sections = << >>
    /\ batch_index = 0
    /\ batch_pc = "idle"
    /\ repo_dir = << >>
    /\ saved_files = << >>
    /\ section_calls = << >>
    /\ cancel_requested = FALSE
    /\ batch_return = NoBatchReturn

BatchInit ==
    /\ batch_sections \in BatchStructures
    /\ batch_index = 0
    /\ batch_pc = "call"
    /\ repo_dir = << >>
    /\ saved_files = << >>
    /\ section_calls = << >>
    /\ cancel_requested = FALSE
    /\ batch_return = NoBatchReturn

\* _generate_and_save_enhanced_pages is entered: with no section to process
\* it returns the empty list at once
GenerateAndSaveEnhancedPages ==
    /\ batch_pc = "call"
    /\ LET after == AfterSection(ProcessingOrder(batch_sections),
                                 Len(ProcessingOrder(batch_sections)) , << >>)
       IN  IF ProcessingOrder(batch_sections) = << >>
           THEN batch_pc' = after.pc /\ batch_return' = after.return
           ELSE batch_pc' = "generate" /\ batch_return' = NoBatchReturn
    /\ UNCHANGED << batch_sections, batch_index, repo_dir, saved_files,
                    section_calls, cancel_requested >>
    /\ UNCHANGED << coreVars, log, configVars, lookupVars, buildVars, corpusVars,
                    sanitizeVars, promptVars >>

\* The body of the loop for the next section, up to the sleep: the content
\* is generated, written to the section's file and the file is recorded; a
\* failure of the write is logged and the loop goes on
GenerateSection ==
    /\ batch_pc = "generate"
    /\ LET order == ProcessingOrder(batch_sections)
           idx == batch_index + 1
           name == SafeFilename(order, idx)
       IN  \E written \in BOOLEAN :
              /\ section_calls' =
                    Append(section_calls,
                           [call |-> idx, saved |-> written,
                            after_cancel |-> cancel_requested])
              /\ IF written
                 THEN /\ repo_dir' = WriteFile(repo_dir, name, ContentOf(idx))
                      /\ saved_files' = Append(saved_files, name)
                      /\ batch_pc' = "sleeping"
                      /\ UNCHANGED << batch_index, batch_return >>
                 ELSE /\ batch_index' = idx
                      /\ batch_pc' = AfterSection(order, idx, saved_files).pc
                      /\ batch_return' = AfterSection(order, idx, saved_files).return
                      /\ UNCHANGED << repo_dir, saved_files >>
    /\ UNCHANGED << batch_sections, cancel_requested >>
    /\ UNCHANGED << coreVars, log, configVars, lookupVars, buildVars, corpusVars,
                    sanitizeVars, promptVars >>

\* Task.cancel() on the task running the batch, while it is suspended
CancelBatch ==
    /\ batch_pc = "sleeping"
    /\ ~cancel_requested
    /\ cancel_requested' = TRUE
    /\ UNCHANGED << batch_sections, batch_index, batch_pc, repo_dir, saved_files,
                    section_calls, batch_return >>
    /\ UNCHANGED << coreVars, log, configVars, lookupVars, buildVars, corpusVars,
                    sanitizeVars, promptVars >>

\* await asyncio.sleep(0.5) ends: normally, or with the CancelledError of a
\* requested cancellation, which passes the except Exception clause and
\* leaves the coroutine
SleepEnds ==
    /\ batch_pc = "sleeping"
    /\ LET order == ProcessingOrder(batch_sections)
           idx == batch_index + 1
       IN  IF cancel_requested
           THEN /\ batch_pc' = "cancelled"
                /\ batch_return' = [status |-> "raised", error |-> "CancelledError"]
                /\ UNCHANGED batch_index
           ELSE /\ batch_index' = idx
                /\ batch_pc' = AfterSection(order, idx, saved_files).pc
                /\ batch_return' = AfterSection(order, idx, saved_files).return
    /\ UNCHANGED << batch_sections, repo_dir, saved_files, section_calls,
                    cancel_requested >>
    /\ UNCHANGED << coreVars, log, configVars, lookupVars, buildVars, corpusVars,
                    sanitizeVars, promptVars >>

(***************************************************************************)
(* Specifications.                                                         *)
(***************************************************************************)

ServicesIdle ==
    /\ ConfigIdle /\ LookupIdle /\ BuildIdle /\ CorpusIdle /\ SanitizeIdle
    /\ PromptIdle /\ BatchIdle
CoreIdle == RetrieveIdle /\ GenerateIdle /\ InjectIdle

InitRetrieve ==
    RetrieveInit /\ GenerateIdle /\ InjectIdle /\ ServicesIdle /\ log = << >>
NextRetrieve == FindSimilarRepos
SpecRetrieve == InitRetrieve /\ [][NextRetrieve]_vars

InitGenerate ==
    LoadedInit /\ GenerateInit /\ InjectIdle /\ ServicesIdle /\ log = << >>
NextGenerate ==
    \/ GenerateStart
    \/ TryModelSucceeds
    \/ TryModelFails
    \/ GenerateFinish
    \/ GenerateDocumentationStructure
SpecGenerate == InitGenerate /\ [][NextGenerate]_vars

InitInject ==
    RetrieveIdle /\ GenerateIdle /\ InjectInit /\ ServicesIdle /\ log = << >>
NextInject == GetDocumentation \/ MergeSectionsCall
SpecInject == InitInject /\ [][NextInject]_vars

InitSection ==
    RetrieveIdle /\ GenerateIdle /\ SectionInit /\ ServicesIdle /\ log = << >>
NextSection == GetDocumentation \/ GetDocumentationSection
SpecSection == InitSection /\ [][NextSection]_vars

InitConfig ==
    /\ CoreIdle /\ ConfigInit /\ LookupIdle /\ BuildIdle /\ CorpusIdle
    /\ SanitizeIdle /\ PromptIdle /\ BatchIdle /\ log = << >>
NextConfig ==
    \/ LoadConfigCall
    \/ ReloadConfigCall
    \/ WriteConfigFile
    \/ DeleteConfigFile
SpecConfig == InitConfig /\ [][NextConfig]_vars

InitLookup ==
    /\ CoreIdle /\ LookupInit /\ BuildIdle /\ CorpusIdle /\ SanitizeIdle
    /\ PromptIdle /\ BatchIdle /\ log = << >>
NextLookup == GetRepositoryConfig
SpecLookup == InitLookup /\ [][NextLookup]_vars

InitBuild ==
    /\ CoreIdle /\ ConfigIdle /\ LookupIdle /\ BuildInit /\ CorpusIdle
    /\ SanitizeIdle /\ PromptIdle /\ BatchIdle /\ log = << >>
NextBuild == BuildStart \/ ProcessFile \/ FinishBuild
SpecBuild == InitBuild /\ [][NextBuild]_vars

InitCorpus ==
    /\ CoreIdle /\ ConfigIdle /\ LookupIdle /\ BuildIdle /\ CorpusInit
    /\ SanitizeIdle /\ PromptIdle /\ BatchIdle /\ log = << >>
NextCorpus == CreateCorpusTextCall \/ GeneratorCreateCorpusTextCall
SpecCorpus == InitCorpus /\ [][NextCorpus]_vars

InitSanitize ==
    /\ CoreIdle /\ ConfigIdle /\ LookupIdle /\ BuildIdle /\ CorpusIdle
    /\ SanitizeInit /\ PromptIdle /\ BatchIdle /\ log = << >>
NextSanitize == SanitizeFilenameCall
SpecSanitize == InitSanitize /\ [][NextSanitize]_vars

InitPrompt ==
    /\ CoreIdle /\ ConfigIdle /\ LookupIdle /\ BuildIdle /\ CorpusIdle
    /\ SanitizeIdle /\ PromptInit /\ BatchIdle /\ log = << >>
NextPrompt == ConstructPromptCall
SpecPrompt == InitPrompt /\ [][NextPrompt]_vars

InitBatch ==
    /\ CoreIdle /\ ConfigIdle /\ LookupIdle /\ BuildIdle /\ CorpusIdle
    /\ SanitizeIdle /\ PromptIdle /\ BatchInit /\ log = << >>
NextBatch ==
    \/ GenerateAndSaveEnhancedPages \/ GenerateSection \/ CancelBatch
    \/ SleepEnds
SpecBatch == InitBatch /\ [][NextBatch]_vars

Init ==
    \/ InitRetrieve \/ InitGenerate \/ InitInject \/ InitSection \/ InitConfig
    \/ InitLookup
    \/ InitBuild \/ InitCorpus \/ InitSanitize \/ InitPrompt \/ InitBatch
Next ==
    \/ NextRetrieve \/ NextGenerate \/ NextInject \/ NextSection \/ NextConfig
    \/ NextLookup
    \/ NextBuild \/ NextCorpus \/ NextSanitize \/ NextPrompt \/ NextBatch
Spec == Init /\ [][Next]_vars

(***************************************************************************)
(* Properties of the similarity retriever (SpecRetrieve).                  *)
(***************************************************************************)

\* similar is a list of n distinct entries of kb, each annotated with its
\* own cosine similarity to q, in descending score order, and no entry left
\* out scores higher than an entry returned
IsTopSelection(similar, kb, q, n) ==
    LET sims == Similarities(kb, q)
        urls == {similar[i].repo_url : i \in 1..Len(similar)}
    IN  /\ Len(similar) = n
        /\ Cardinality(urls) = n
        /\ \A i \in 1..Len(similar) :
             \E j \in 1..Len(kb) :
                /\ kb[j].repo_url = similar[i].repo_url
                /\ kb[j].embedding = similar[i].embedding
                /\ similar[i].similarity_score = sims[j]
        /\ \A i, j \in 1..Len(similar) :
             i < j => similar[i].similarity_score >= similar[j].similarity_score
        /\ \A j \in 1..Len(kb) :
             kb[j].repo_url \notin urls =>
                \A i \in 1..Len(similar) : sims[j] <= similar[i].similarity_score

\* C1: for every knowledge base, query embedding and requested count k,
\* _find_similar_repos returns exactly the k entries with the highest cosine
\* similarity, in descending score order, and all of the knowledge base when
\* it holds fewer than k entries.
C1_TopK ==
    rpc = "returned" =>
        IsTopSelection(similar_repos, knowledge_base, new_repo_embedding,
                       Min(k, Len(knowledge_base)))

\* C1, for the requested counts of at least one: the statement holds there
C1_TopKPositive ==
    (rpc = "returned" /\ k >= 1) =>
        IsTopSelection(similar_repos, knowledge_base, new_repo_embedding,
                       Min(k, Len(knowledge_base)))

(***************************************************************************)
(* Properties of the generation invoker (SpecGenerate).                    *)
(***************************************************************************)

Failed(attempt) == attempt.outcome \in ApiErrors

AllCandidatesFailed ==
    /\ Len(attempts) = Len(model_names)
    /\ \A i \in 1..Len(attempts) : Failed(attempts[i])

GenerateEnded == gpc \in { "done", "accepted" }

\* C2: candidates are invoked one at a time in list order, each at most
\* once, a candidate only after every earlier one has failed; after a
\* success no later candidate is invoked.
C2_SequentialFallback ==
    /\ Len(attempts) <= Len(model_names)
    /\ \A i \in 1..Len(attempts) :
         /\ attempts[i].model = model_names[i]
         /\ \A j \in 1..(i - 1) : Failed(attempts[j])
    /\ \A i, j \in 1..Len(attempts) :
         attempts[i].model = attempts[j].model => i = j

\* C2 witness: A failed, B succeeded, generate ended, C was never invoked
C2_Witness ==
    /\ GenerateEnded
    /\ Len(attempts) = 2
    /\ Failed(attempts[1])
    /\ attempts[2].outcome = "ok"
    /\ attempts[2].model = model_names[2]

GenerationUnavailable ==
    /\ result.status = "raised"
    /\ result.error.message[1] = "All Claude models failed. Last error: "

\* C3: the invocation raises its all-candidates-failed error exactly when
\* every candidate model has failed, and that error surfaces the error of
\* the last candidate tried.
C3_FailsOnlyWhenAllFail ==
    /\ GenerationUnavailable =>
         /\ AllCandidatesFailed
         /\ result.error.message[2] = attempts[Len(model_names)].outcome
    /\ (GenerateEnded /\ AllCandidatesFailed) => GenerationUnavailable

\* C3 witness: every candidate failed, the first and the last differently
C3_Witness ==
    /\ gpc = "done"
    /\ AllCandidatesFailed
    /\ attempts[1].outcome # attempts[Len(model_names)].outcome
    /\ GenerationUnavailable

RECURSIVE ValidSection(_)
\* A Section node: non-empty title, a children list, valid children
ValidSection(node) ==
    /\ "title" \in DOMAIN node
    /\ node.title # ""
    /\ "children" \in DOMAIN node
    /\ \A i \in 1..Len(node.children) : ValidSection(node.children[i])

\* C4: every Section node of every structure the system accepts (the one
\* generate returns, the fallback used when generation fails) has a
\* non-empty title and a children list.
C4_SchemaInvariant ==
    doc_structure.accepted =>
        \A i \in 1..Len(doc_structure.sections) :
            ValidSection(doc_structure.sections[i])

\* The successful model's payload does not parse after cleaning
UnparseablePayload ==
    /\ GenerateEnded
    /\ response # NoResponse
    /\ ~JsonParses(CleanJsonResponse(response.text))

\* text occurs in the message as a run of consecutive parts
Carries(message, text) ==
    \E at \in 0..(Len(message) - Len(text)) :
        \A i \in 1..Len(text) : message[at + i] = text[i]

Logged(message, text) ==
    \E i \in 1..Len(log) : log[i] = LogRecord(message, text)

\* C5 as stated: on an unparseable payload generate fails with an invalid
\* model output error that carries both the raw and the cleaned text, and
\* returns no structure.
C5_ErrorCarriesTexts ==
    UnparseablePayload =>
        /\ result.status = "raised"
        /\ Carries(result.error.message, response.text)
        /\ Carries(result.error.message, CleanJsonResponse(response.text))

\* C5 amended: on an unparseable payload generate returns no structure; it
\* raises ValueError "Invalid JSON response from LLM" with the parser's
\* message only, having logged the raw and the cleaned text ("Empty response
\* from Claude API" when the payload is empty).
C5_InvalidJsonRaises ==
    UnparseablePayload =>
        /\ result.status = "raised"
        /\ result.error.type = "ValueError"
        /\ IF response.text = << >>
           THEN result.error.message = << "Empty response from Claude API", "" >>
           ELSE /\ result.error.message =
                      << "Invalid JSON response from LLM: ", "JSONDecodeError" >>
                /\ Logged("Raw response: ", response.text)
                /\ Logged("Cleaned response: ", CleanJsonResponse(response.text))

\* C5 witness: prose inside an opened code fence is not JSON
C5_Witness ==
    /\ gpc = "done"
    /\ response # NoResponse
    /\ response.text = << FenceJson, Prose, Fence >>
    /\ result.status = "raised"

(***************************************************************************)
(* Properties of the section injector (SpecInject).                        *)
(***************************************************************************)

\* get_documentation returned after injecting under the given strategy
Injected(strategy) ==
    /\ ipc = "returned"
    /\ stored_structure.found
    /\ repositories.present
    /\ repositories.enabled
    /\ global_config.enable_custom_sections
    /\ global_config.injection_strategy = strategy

\* The key of the merge order: the priority, 999 without one
PriorityOrLast(section) ==
    IF "priority" \in DOMAIN section THEN section.priority ELSE 999

\* out is input reordered by a stable ascending sort on PriorityOrLast
IsStableSortOf(out, input) ==
    /\ Len(out) = Len(input)
    /\ \E p \in Permutations1(Len(input)) :
         /\ \A i \in 1..Len(out) : out[i] = input[p[i]]
         /\ \A i, j \in 1..Len(out) :
              i < j =>
                \/ PriorityOrLast(input[p[i]]) < PriorityOrLast(input[p[j]])
                \/ /\ PriorityOrLast(input[p[i]]) = PriorityOrLast(input[p[j]])
                   /\ p[i] < p[j]

\* The configured custom sections that are enabled and whose content the
\* bucket returns
Servable ==
    {i \in 1..Len(repositories.custom_sections) :
        /\ repositories.custom_sections[i].enabled
        /\ custom_store[repositories.custom_sections[i].gcs_path] = "content"}

ServableNames == {repositories.custom_sections[i].name : i \in Servable}

IsCustom(section) == "is_custom" \in DOMAIN section /\ section.is_custom

Titles(sections) == [i \in 1..Len(sections) |-> sections[i].title]

Ascending(sections) ==
    \A i, j \in 1..Len(sections) :
        i < j => sections[i].priority <= sections[j].priority

\* The generated sections as the injector receives them
GeneratedSections == AssignDefaultPriorities(stored_structure.sections)

\* C6 as stated: merging with no custom sections yields the generated
\* sections unchanged and in their original order.
C6_MergeEmptyIdentity ==
    (Injected("merge") /\ enhanced.injection_info.custom_sections_count = 0) =>
        enhanced.sections = GeneratedSections

\* C6 amended: merging with no custom sections yields the generated
\* sections stably sorted by their assigned priority; they keep their
\* original order when those priorities are already non-decreasing, in
\* particular when no section has an explicit priority or a table title.
C6_MergeEmptySorted ==
    (Injected("merge") /\ enhanced.injection_info.custom_sections_count = 0) =>
        /\ IsStableSortOf(enhanced.sections, GeneratedSections)
        /\ Ascending(GeneratedSections) => enhanced.sections = GeneratedSections
        /\ (\A i \in 1..Len(stored_structure.sections) :
              /\ "priority" \notin DOMAIN stored_structure.sections[i]
              /\ stored_structure.sections[i].title \in { "Usage", "FAQ" })
           => /\ Titles(enhanced.sections) = Titles(stored_structure.sections)
              /\ \A i \in 1..Len(enhanced.sections) :
                   enhanced.sections[i].priority = 10 + (i - 1)

\* C6 witness: two generated sections out of priority order, nothing custom
C6_Witness ==
    /\ Injected("merge")
    /\ enhanced.injection_info.custom_sections_count = 0
    /\ Len(stored_structure.sections) = 2
    /\ Titles(stored_structure.sections) = << "Usage", "Installation and Setup" >>
    /\ Titles(enhanced.sections) = << "Installation and Setup", "Usage" >>

\* The custom sections handed to the merge, in the order they are handed
FetchedCustomSections ==
    CollectCustomSections(ParseRepositoryConfig(repositories).custom_sections,
                          custom_store)

\* C7: under merge the output is all generated and custom sections sorted
\* by one ascending priority key, a missing priority counting as 999, and
\* sections of equal priority keep the order of the concatenated input.
C7_MergeSortedStable ==
    /\ Injected("merge") =>
         IsStableSortOf(enhanced.sections,
                        GeneratedSections \o FetchedCustomSections)
    /\ ipc = "merged" =>
         IsStableSortOf(enhanced.sections,
                        stored_structure.sections \o FetchedCustomSections)

\* C7 witness: a generated and a custom section of equal priority, and a
\* section without priority that sorts last
C7_Witness ==
    /\ ipc = "merged"
    /\ Len(enhanced.sections) = 3
    /\ ~IsCustom(enhanced.sections[1])
    /\ IsCustom(enhanced.sections[2])
    /\ enhanced.sections[1].priority = enhanced.sections[2].priority
    /\ "priority" \notin DOMAIN enhanced.sections[3]

\* C8: under replace the output holds only custom sections, each marked
\* is_custom, in ascending priority order, and none of the generated ones;
\* one custom section against two generated sections gives that one section.
C8_ReplaceOnlyCustom ==
    Injected("replace") =>
        /\ \A i \in 1..Len(enhanced.sections) : IsCustom(enhanced.sections[i])
        /\ Ascending(enhanced.sections)
        /\ {enhanced.sections[i].title : i \in 1..Len(enhanced.sections)}
              = ServableNames
        /\ Len(enhanced.sections) = Cardinality(Servable)
        /\ (Len(repositories.custom_sections) = 1 /\ Servable = {1}
              /\ Len(stored_structure.sections) = 2)
           => /\ Len(enhanced.sections) = 1
              /\ enhanced.sections[1].name = repositories.custom_sections[1].name
              /\ enhanced.sections[1].is_custom

\* C8 witness: the scenario, one custom section and two generated sections
C8_Witness ==
    /\ Injected("replace")
    /\ Len(repositories.custom_sections) = 1
    /\ Len(stored_structure.sections) = 2
    /\ Len(enhanced.sections) = 1
    /\ enhanced.sections[1].name = "Runbook"

\* sections is `custom` custom sections in ascending priority order
IsCustomRun(sections) ==
    /\ \A i \in 1..Len(sections) : IsCustom(sections[i])
    /\ Ascending(sections)
    /\ {sections[i].title : i \in 1..Len(sections)} = ServableNames
    /\ Len(sections) = Cardinality(Servable)

\* sections is the generated sections in their original order
IsGeneratedRun(sections) ==
    /\ \A i \in 1..Len(sections) : ~IsCustom(sections[i])
    /\ Titles(sections) = Titles(stored_structure.sections)

\* C9: under prepend the output is the custom sections in ascending
\* priority order followed by the generated sections in their original
\* order; under append it is the generated sections followed by the custom
\* sections.
C9_PrependAppend ==
    LET nc == Cardinality(Servable)
        ng == Len(stored_structure.sections)
        out == enhanced.sections
    IN  /\ Injected("prepend") =>
             /\ Len(out) = nc + ng
             /\ IsCustomRun(SubSeq(out, 1, nc))
             /\ IsGeneratedRun(SubSeq(out, nc + 1, nc + ng))
        /\ Injected("append") =>
             /\ Len(out) = ng + nc
             /\ IsGeneratedRun(SubSeq(out, 1, ng))
             /\ IsCustomRun(SubSeq(out, ng + 1, ng + nc))

\* C9 witness: prepend with two custom sections configured in descending
\* priority order and a generated section
C9_Witness ==
    /\ Injected("prepend")
    /\ Len(repositories.custom_sections) = 2
    /\ repositories.custom_sections[1].priority > repositories.custom_sections[2].priority
    /\ Cardinality(Servable) = 2
    /\ Len(stored_structure.sections) = 1
    /\ Titles(enhanced.sections) = << "Oncall", "Runbook", "Usage" >>

\* The custom sections of the output
CustomTitles(sections) ==
    {sections[i].title : i \in {j \in 1..Len(sections) : IsCustom(sections[j])}}

\* C10: a failed content fetch never aborts the batch: the injected custom
\* sections are exactly the enabled configured sections whose fetch
\* succeeded, with fallback_to_generated enabled or disabled.
C10_FetchFailureIsolated ==
    (/\ ipc = "returned"
     /\ stored_structure.found
     /\ repositories.present
     /\ repositories.enabled
     /\ global_config.enable_custom_sections) =>
        /\ "injection_info" \in DOMAIN enhanced
        /\ enhanced.success
        /\ enhanced.injection_info.custom_sections_count = Cardinality(Servable)
        /\ CustomTitles(enhanced.sections) = ServableNames

\* C10 witness: the first fetch raises, the second finds nothing, the third
\* succeeds and is injected, with fallback disabled
C10_Witness ==
    /\ ipc = "returned"
    /\ stored_structure.found
    /\ repositories.present /\ repositories.enabled
    /\ global_config.enable_custom_sections
    /\ ~global_config.fallback_to_generated
    /\ Len(repositories.custom_sections) = 3
    /\ \A i \in 1..3 : repositories.custom_sections[i].enabled
    /\ custom_store[repositories.custom_sections[1].gcs_path] = "raises"
    /\ custom_store[repositories.custom_sections[2].gcs_path] = "missing"
    /\ custom_store[repositories.custom_sections[3].gcs_path] = "content"
    /\ enhanced.injection_info.custom_sections_count = 1
    /\ Len(log) = 2


(***************************************************************************)
(* Properties of ConfigService (SpecConfig, SpecLookup).                   *)
(***************************************************************************)

\* The latest ConfigService call was a configuration access
Accessed == config_call.op = "load"

\* At the latest access the file's modification time had advanced beyond
\* the cached timestamp (with no cached timestamp there is nothing to be
\* beyond)
TimestampAdvanced ==
    \/ config_call.ts_before = None
    \/ /\ config_call.file.exists
       /\ config_call.file.mtime > config_call.ts_before[1]

\* The latest access returned the configuration that was cached before it
\* and left the cache alone
ServedCache ==
    /\ config_call.cache_before # None
    /\ config_call.returned = config_call.cache_before[1]
    /\ config_cache = config_call.cache_before
    /\ last_modified = config_call.ts_before

WildcardTokens(pattern) ==
    [i \in 1..Len(pattern) |-> IF pattern[i] = "*" THEN "any*" ELSE pattern[i]]
WildcardMatches(url, pattern) ==
    Len(url) \in MatchEnds(WildcardTokens(pattern), Len(pattern), url)

\* The lookup the claim describes on the configuration the call loaded
ClaimedLookup(repos, url) ==
    LET hits == { i \in 1..Len(repos) : WildcardMatches(url, repos[i]) }
    IN  IF \E i \in 1..Len(repos) : repos[i] = url
        THEN FoundUnder(url)
        ELSE IF hits # { }
        THEN FoundUnder(repos[CHOOSE i \in hits : \A j \in hits : i <= j])
        ELSE NoRepositoryConfig

\* C13: get_repository_config returns the entry stored under the exact
\* identifier when there is one; otherwise the entry of the first pattern, in
\* configuration order, that matches the identifier with each * standing for
\* any sequence of characters; otherwise nothing.
C13_ExactThenFirstWildcard ==
    lpc = "returned" =>
        found_config = ClaimedLookup(config_call.returned.repositories, repo_url)

(***************************************************************************)
(* Properties of the knowledge-base builder (SpecBuild).                   *)
(***************************************************************************)

\* The record has an identifier, the identifier has an accepted structure,
\* and nothing raises while the record is processed
GoodRecord(record) ==
    /\ record.github_url # "" \/ record.github_repo # ""
    /\ RepoUrlOf(record) \in deepwiki.urls
    /\ record.raises = "no"

\* The good records among the first n files
GoodFiles(n) == { i \in 1..n : GoodRecord(analysis_files[i]) }

\* process_repository_files has gone through its loop and the driver has
\* ended
LoopEnded == bpc \in { "saved", "exited", "returned_true", "returned_false" }

\* C14: a record without identifier, without matching structure, or whose
\* processing raises is skipped and the loop goes on: after n files the
\* collection holds, in file order, exactly one entry for each good record
\* among them, every other record is counted as skipped, and the loop ends
\* only when every file has been gone through.
C14_BadRecordsSkipped ==
    bpc = "loop" \/ LoopEnded =>
        /\ Len(built) = Cardinality(GoodFiles(file_index))
        /\ \A i \in GoodFiles(file_index) :
              /\ Cardinality({ j \in 1..Len(built) : built[j].file = i }) = 1
              /\ \E j \in 1..Len(built) :
                    /\ built[j].file = i
                    /\ built[j].repo_url = RepoUrlOf(analysis_files[i])
                    /\ built[j].metadata = analysis_files[i]
        /\ \A a, b \in 1..Len(built) : a < b => built[a].file < built[b].file
        /\ skipped_count = file_index - Len(built)
        /\ LoopEnded => file_index = Len(analysis_files)

\* The build ended with a skipped record in front of a record that made it
\* into the collection
C14_Witness ==
    /\ LoopEnded
    /\ skipped_count >= 1
    /\ built # << >>
    /\ built[1].file = 2
    /\ ~GoodRecord(analysis_files[1])

\* The build is over, whether it went through the files or load_deepwiki_docs
\* stopped it
BuildOver == LoopEnded \/ bpc \in { "raised", "caught" }

\* The driver gave up: preprocess.main logged the error and returned, or
\* re-raised; build_knowledge_base_if_needed returned False
BuildFailed == bpc \in { "exited", "returned_false", "raised", "caught" }

Populated(field) ==
    /\ field # Absent
    /\ field.kind = "str" => field.value # ""
    /\ field.kind = "list" => field.items # << >>
    /\ field.kind = "dict" => field.keys # << >>

\* What each field contributes: its labelled text when populated, nothing
\* otherwise. The architecture description is populated when the
\* architecture is an object with a populated description.
Contribution(label, populated, text) ==
    IF populated THEN << label \o text >> ELSE << >>

ContributionsInOrder(record) ==
    Contribution("Overview: ", Populated(record.overview),
                 IF record.overview.kind = "str" THEN record.overview.value ELSE "")
    \o Contribution("Business Domain: ", Populated(record.business_domain),
                 IF record.business_domain.kind = "str"
                 THEN record.business_domain.value ELSE "")
    \o Contribution("Architecture: ",
                 /\ record.architecture.kind = "dict"
                 /\ Populated(record.architecture.description),
                 IF record.architecture.kind = "dict"
                    /\ record.architecture.description.kind = "str"
                 THEN record.architecture.description.value ELSE "")
    \o Contribution("Tech Stack: ", Populated(record.tech_stack),
                 IF Populated(record.tech_stack)
                 THEN TechString(record.tech_stack) ELSE "")

ClaimedSanitize(title) ==
    StripOf(CollapseUnderscores(
                [i \in 1..Len(title) |->
                    IF title[i] \in InvalidChars \cup { " " } THEN "_"
                    ELSE title[i]]),
            { "_" })

\* 'API_Reference_Guide'
ScenarioSanitized ==
    << "A", "P", "I", "_", "R", "e", "f", "e", "r", "e", "n", "c", "e", "_",
       "G", "u", "i", "d", "e" >>

\* C17: every sanitizer that keys section content by title gives the title
\* with invalid characters and spaces replaced by underscores, runs of
\* underscores collapsed and underscores trimmed at both ends; the title
\* 'API / Reference: Guide' gives 'API_Reference_Guide'.
C17_SanitizeRule ==
    spc = "returned" =>
        /\ sanitized.analysis = ClaimedSanitize(filename)
        /\ sanitized.enhanced = ClaimedSanitize(filename)
        /\ sanitized.gcs = ClaimedSanitize(filename)
        /\ filename = ScenarioTitle => ClaimedSanitize(filename) = ScenarioSanitized

(***************************************************************************)
(* Properties of the prompt (SpecPrompt).                                  *)
(***************************************************************************)

\* The parts of the prompt written for the retrieved entries, in prompt order
ExampleParts ==
    SelectSeq(prompt, LAMBDA part : part.kind \in { "example", "score", "structure" })

\* C18: the prompt holds the JSON text of the query metadata as given and,
\* for each retrieved entry in retrieval order, its identifier, its
\* similarity score (printed with three decimals) and the JSON text of its
\* whole accepted structure, and nothing for any other entry.
C18_PromptContents ==
    ppc = "returned" =>
        /\ \E p \in 1..Len(prompt) :
              /\ prompt[p].kind = "metadata"
              /\ prompt[p].text = JsonDumps(new_repo_metadata)
              /\ \A q \in 1..Len(prompt) :
                    prompt[q].kind \in { "example", "score", "structure" } => p < q
        /\ Len(ExampleParts) = 3 * Len(retrieved)
        /\ \A i \in 1..Len(retrieved) :
              /\ ExampleParts[3 * i - 2].kind = "example"
              /\ ExampleParts[3 * i - 2].index = i
              /\ ExampleParts[3 * i - 2].repo_url = retrieved[i].repo_url
              /\ ExampleParts[3 * i - 1].kind = "score"
              /\ ExampleParts[3 * i - 1].text =
                     FormatScore(retrieved[i].similarity_score)
              /\ ExampleParts[3 * i].kind = "structure"
              /\ ExampleParts[3 * i].text = JsonDumps(retrieved[i].doc_structure)

\* A prompt for two different retrieved entries, the first with the score
\* 0.9576, which the prompt prints as 0.958
C18_Witness ==
    /\ ppc = "returned"
    /\ Len(retrieved) = 2
    /\ retrieved[1].repo_url # retrieved[2].repo_url
    /\ retrieved[1].doc_structure # retrieved[2].doc_structure
    /\ retrieved[1].similarity_score = 9576
    /\ new_repo_metadata.overview = Str("Billing API")
    /\ Len(prompt) = 10
    /\ prompt[4].text = [whole |-> 0, decimals |-> 958]

(***************************************************************************)
(* Frame of the knowledge base (SpecGenerate).                             *)
(***************************************************************************)

\* C19: no step of generate, whether the call ends with a structure or with
\* an error, changes the loaded knowledge base: the same entries in the same
\* order with the same fields, and no stored entry carries a similarity
\* score.
C19_KnowledgeBaseUnchanged ==
    /\ [][knowledge_base' = knowledge_base]_vars
    /\ [](\A i \in 1..Len(knowledge_base) :
             DOMAIN knowledge_base[i] = { "repo_url", "embedding" })

\* generate has retrieved scored copies of the stored entries and every
\* candidate model has failed
C19_Witness ==
    /\ GenerateEnded
    /\ AllCandidatesFailed
    /\ Len(knowledge_base) = 2
    /\ Len(similar_repos) = 2
    /\ \A i \in 1..2 : "similarity_score" \in DOMAIN similar_repos[i]
    /\ \A i \in 1..2 : "similarity_score" \notin DOMAIN knowledge_base[i]

(***************************************************************************)
(* Navigation view of the injected result (SpecInject).                    *)
(***************************************************************************)

\* get_documentation has returned a result with custom sections injected
InjectedResult ==
    /\ ipc = "returned"
    /\ stored_structure.found
    /\ InjectionApplies(repositories, global_config)

\* C20: after injection, under each strategy, the navigation lists the
\* sections of the output section list, in the order of that list.
C20_NavigationFollowsSections ==
    InjectedResult =>
        /\ Len(enhanced.navigation) = Len(enhanced.sections)
        /\ Titles(enhanced.navigation) = Titles(enhanced.sections)

(***************************************************************************)
(* Ties in the similarity retriever (SpecRetrieve).                        *)
(***************************************************************************)

\* The position of knowledge-base entry i in the returned list, 0 when the
\* entry was not returned (repo_url is the insertion index of the entry)
ReturnedAt(i) ==
    IF \E p \in 1..Len(similar_repos) : similar_repos[p].repo_url = i
    THEN CHOOSE p \in 1..Len(similar_repos) : similar_repos[p].repo_url = i
    ELSE 0

\* Entries i and j of the knowledge base score the same against the query
Tied(i, j) ==
    LET sims == Similarities(knowledge_base, new_repo_embedding)
    IN  sims[i] = sims[j]

\* C21: in _find_similar_repos, knowledge-base entries with equal similarity
\* to the query are ranked in their insertion order: when a later-inserted
\* entry of a tie is returned, so is the earlier-inserted one, and the
\* earlier-inserted one comes first in the returned list.
C21_TiesInInsertionOrder ==
    (rpc = "returned" /\ k >= 1) =>
        \A i, j \in 1..Len(knowledge_base) :
            (i < j /\ Tied(i, j) /\ ReturnedAt(j) > 0) =>
                /\ ReturnedAt(i) > 0
                /\ ReturnedAt(i) < ReturnedAt(j)

(***************************************************************************)
(* Technologies named under two categories (SpecCorpus).                   *)
(***************************************************************************)

\* tech_stack is an object whose every value is a list of technologies
CategoryLists(tech_stack) ==
    /\ tech_stack.kind = "dict"
    /\ tech_stack.keys # << >>
    /\ \A i \in 1..Len(tech_stack.values) : tech_stack.values[i].kind = "list"

\* A list without its repeated elements: the first occurrence of each stays
RECURSIVE Deduplicated(_)
Deduplicated(list) ==
    IF list = << >> THEN << >>
    ELSE LET front == Deduplicated(SubSeq(list, 1, Len(list) - 1))
             last  == list[Len(list)]
         IN  IF \E i \in 1..Len(front) : front[i] = last THEN front
             ELSE Append(front, last)

\* The corpus text whose technology part joins the deduplicated list
DeduplicatedCorpusText(record) ==
    Join(OverviewPart(record) \o BusinessDomainPart(record)
           \o ArchitecturePart(record)
           \o << "Tech Stack: "
                   \o Join(Deduplicated(AllTechs(record.tech_stack, 1)), ", ") >>,
         " ")

\* C22: when tech_stack is a category-to-list mapping, the lists are
\* flattened to a deduplicated list before being joined, so the corpus text
\* names each technology once, also one that is listed under two categories.
C22_TechnologiesDeduplicated ==
    (cpc = "returned" /\ CategoryLists(metadata.tech_stack)) =>
        corpus_text = DeduplicatedCorpusText(metadata)

(***************************************************************************)
(* Default priorities (SpecInject).                                        *)
(***************************************************************************)

\* get_documentation returned the base result: the stored sections after
\* _assign_default_priorities and nothing else
ReturnedBase ==
    /\ ipc = "returned"
    /\ stored_structure.found
    /\ ~InjectionApplies(repositories, global_config)

\* The stored section at idx has no priority and no table entry for its
\* title
PositionDerived(idx) ==
    /\ ~HasPriority(stored_structure.sections[idx])
    /\ Lower(stored_structure.sections[idx].title) \notin DOMAIN default_priorities

\* The place of section idx once the list is sorted by priority
PlaceByPriority(sections, idx) ==
    LET order == SortedOrder([i \in 1..Len(sections) |-> sections[i].priority],
                             Len(sections))
    IN  CHOOSE r \in 1..Len(sections) : order[r] = idx

\* C23: _assign_default_priorities leaves every explicitly set priority as
\* it is and gives a generated section without one the table priority of its
\* title, or 10 plus its position when the title is not in the table; the
\* sections that received a position-derived priority keep their relative
\* order when the list is sorted by priority.
C23_DefaultPriorities ==
    ReturnedBase =>
        LET before == stored_structure.sections
            after  == enhanced.sections
        IN  /\ Len(after) = Len(before)
            /\ \A idx \in 1..Len(before) :
                 /\ after[idx].title = before[idx].title
                 /\ after[idx].children = before[idx].children
                 /\ HasPriority(before[idx]) => after[idx] = before[idx]
                 /\ ~HasPriority(before[idx]) =>
                      after[idx].priority =
                        IF Lower(before[idx].title) \in DOMAIN default_priorities
                        THEN default_priorities[Lower(before[idx].title)]
                        ELSE PositionBase + (idx - 1)
            /\ \A i, j \in 1..Len(before) :
                 (i < j /\ PositionDerived(i) /\ PositionDerived(j)) =>
                     PlaceByPriority(after, i) < PlaceByPriority(after, j)

\* The base result holds a section whose priority was set or taken from the
\* table, followed and preceded by sections with position-derived priorities
C23_Witness ==
    /\ ReturnedBase
    /\ \E a, c, d \in 1..Len(stored_structure.sections) :
         /\ c < a /\ a < d
         /\ \/ HasPriority(stored_structure.sections[a])
            \/ Lower(stored_structure.sections[a].title) \in DOMAIN default_priorities
         /\ PositionDerived(c)
         /\ PositionDerived(d)

(***************************************************************************)
(* The generated structure as an input of the injector (SpecInject).       *)
(***************************************************************************)

\* C24: the section injector treats the generated documentation structure
\* as read-only: when get_documentation has returned, the structure object
\* it loaded has the section list it was loaded with, and the object handed
\* to _apply_injection_strategy has the section list it was handed in with.
C24_GeneratedStructureReadOnly ==
    (ipc = "returned" /\ stored_structure.found) =>
        /\ base_result.sections = stored_structure.sections
        /\ base_result.passed # None =>
               base_result.sections = base_result.passed[1]

(***************************************************************************)
(* Producer key and retrieval key of a section title (SpecSanitize).       *)
(***************************************************************************)

\* C29: for every section title, the file name under which
\* AnalysisServiceGCS stores the section's content equals the file name
\* EnhancedDocumentationService computes when the title is requested.
C29_StoredKeyIsLookupKey ==
    spc = "returned" => sanitized.gcs = sanitized.enhanced

(***************************************************************************)
(* Builder and generator corpus texts (SpecCorpus).                        *)
(***************************************************************************)

\* C30: for every metadata record, the corpus text the knowledge-base
\* builder computes equals the corpus text the generator computes for a
\* query with the same record.
C30_SameCorpusText ==
    (cpc = "returned" /\ query_corpus_text # None) =>
        query_corpus_text[1] = corpus_text

\* Both functions have returned a text with a part for each of the four
\* fields, the technology stack being a category mapping
C30_Witness ==
    /\ cpc = "returned"
    /\ query_corpus_text # None
    /\ Truthy(metadata.overview)
    /\ Truthy(metadata.business_domain)
    /\ metadata.architecture.kind = "dict"
    /\ Truthy(metadata.architecture.description)
    /\ metadata.tech_stack.kind = "dict"
    /\ Len(metadata.tech_stack.keys) = 2
    /\ corpus_text # ""

(***************************************************************************)
(* Fallback to the generated sections (SpecInject).                        *)
(***************************************************************************)

\* Custom sections are configured and enabled, and the content of none of
\* them is found in the custom docs bucket
CustomContentNotFound ==
    /\ \E i \in 1..Len(repositories.custom_sections) :
          repositories.custom_sections[i].enabled
    /\ \A i \in 1..Len(repositories.custom_sections) :
          repositories.custom_sections[i].enabled =>
             custom_store[repositories.custom_sections[i].gcs_path] # "content"

\* C28: when fallback_to_generated is enabled and the content of the
\* configured custom sections is not found, the documentation returned by
\* get_documentation still holds every generated section, under every
\* injection strategy, replace included.
C28_FallbackToGenerated ==
    (/\ ipc = "returned"
     /\ stored_structure.found
     /\ InjectionApplies(repositories, global_config)
     /\ global_config.fallback_to_generated
     /\ CustomContentNotFound) =>
        \A i \in 1..Len(GeneratedSections) :
            \E j \in 1..Len(enhanced.sections) :
                enhanced.sections[j] = GeneratedSections[i]

(***************************************************************************)
(* Disabled custom sections (SpecSection).                                 *)
(***************************************************************************)

\* The names of the custom sections configured with enabled = false
DisabledNames ==
    {repositories.custom_sections[i].name :
        i \in {j \in 1..Len(repositories.custom_sections) :
                  ~repositories.custom_sections[j].enabled}}

\* get_documentation_section returned the custom content of the section
ServedCustomContent ==
    /\ ipc = "section_returned"
    /\ section_result.success
    /\ section_result.is_custom

\* C27: a custom section configured with enabled = false is never served:
\* it is not in the section list get_documentation returns, and
\* get_documentation_section for its name does not return its custom
\* content.
C27_DisabledNeverServed ==
    /\ (ipc = "returned" /\ enhanced.success) =>
          \A j \in 1..Len(enhanced.sections) :
              IsCustom(enhanced.sections[j]) =>
                  enhanced.sections[j].title \notin DisabledNames
    /\ section_request.section \in DisabledNames => ~ServedCustomContent

(***************************************************************************)
(* Cancellation of a batch and the output slots of its sections            *)
(* (SpecBatch).                                                            *)
(***************************************************************************)

\* _generate_and_save_enhanced_pages is over
BatchEnded == batch_pc \in { "returned", "cancelled" }

\* The files of the calls that completed, in the order of the calls
CompletedFiles ==
    LET done == SelectSeq(section_calls, LAMBDA c : c.saved)
    IN  [i \in 1..Len(done) |->
            SafeFilename(ProcessingOrder(batch_sections), done[i].call)]

\* C25: when a batch of section-content generation calls is cancelled, no
\* generation call is issued after the cancellation, every call that was
\* issued has completed with its outcome recorded, and the batch returns the
\* results of the calls completed so far instead of discarding them.
C25_CancelledBatchReturnsResults ==
    cancel_requested =>
        /\ \A i \in 1..Len(section_calls) : ~section_calls[i].after_cancel
        /\ \A i \in 1..Len(section_calls) :
              section_calls[i].saved =>
                  SafeFilename(ProcessingOrder(batch_sections),
                               section_calls[i].call) \in DOMAIN repo_dir
        /\ BatchEnded =>
              /\ batch_return.status = "returned"
              /\ batch_return.value = CompletedFiles

\* C26: in a batch over one documentation structure each section writes
\* its own output file: the file written for a section holds the content
\* generated for that section, and is never overwritten with the content of
\* another section of the batch.
C26_OwnOutputSlot ==
    \A i \in 1..Len(section_calls) :
        section_calls[i].saved =>
            repo_dir[SafeFilename(ProcessingOrder(batch_sections),
                                  section_calls[i].call)]
                = ContentOf(section_calls[i].call)

=============================================================================
